---- MODULE Spec2Model ----
(***************************************************************************)
(* A model of the retained-mode 2D renderer core bundled in               *)
(* src/chunk-67ULRFHS.js (render-target stack, global-uniform stack, the   *)
(* three mask pipes, the render-group update) and of the game components   *)
(* that consume it.                                                        *)
(*                                                                         *)
(* Every handler of the code is a pure operator from the state of the      *)
(* object it belongs to (a record) to its next state, so that a handler    *)
(* that calls other handlers is the composition of their operators.  Each  *)
(* subsystem has its own specification; the variables of the other         *)
(* subsystems do not change in it.                                         *)
(***************************************************************************)
EXTENDS Integers, Sequences, FiniteSets, TLC

VARIABLES
    rt,         \* RenderTargetSystem: stack, renderTarget, renderSurface, viewport, pass
    rtShadow,   \* history: what was bound immediately before each push still open
    rtPopped,   \* history: the rtShadow entry of the push that the last pop matched
    gu,         \* GlobalUniformSystem: stackIndex, stack, current, pools
    guShadow,   \* history: the current uniform data before each push still open
    guArgs,     \* history: the options of the last start/push
    bld,        \* the instruction set being built and the batch pending on it
    cm,         \* ColorMaskPipe: colorStack, colorStackIndex, currentColor
    sm,         \* StencilMaskPipe: maskStackHash, maskHash
    am,         \* AlphaMaskPipe: activeMaskStage; the pools and the filter stack
    gpu,        \* renderer.stencil and renderer.colorMask: the state last set
    phase,      \* position of the frame: idle, build, execute
    pc,         \* number of instructions of the set executed in this frame
    open,       \* history: the effects pushed and not yet popped by the builder
    pushes,     \* history: the number of effects pushed in this build
    exec,       \* history: the masks begun and not yet popped in execution
    expect,     \* history: what the instruction executed last should restore
    scene,      \* the render groups, the sprites, and the history of the last render
    fr,         \* the tree of render groups of a frame and the steps of the last render()
    tf,         \* the containers of a scene: transforms, alphas, update buckets, passes
    bp,         \* BatcherPipe: the batchers of each instruction set, the active one
    rgc,        \* RenderableGCSystem and the SchedulerSystem it registers with
    tgc,        \* TextureGCSystem: its frame counters
    renderer,   \* the renderer's other parts and the two game components, one field each
    op          \* history: the operation executed last

rtVars == <<rt, rtShadow, rtPopped>>
guVars == <<gu, guShadow, guArgs>>
maskVars == <<bld, cm, sm, am, gpu, phase, pc, open, pushes, exec, expect>>
sceneVars == <<scene>>
laterVars == <<fr, tf, bp, rgc, tgc, renderer>>
vars == <<rt, rtShadow, rtPopped, gu, guShadow, guArgs, bld, cm, sm, am, gpu,
          phase, pc, open, pushes, exec, expect, scene, fr, tf, bp, rgc, tgc, renderer, op>>

(***************************************************************************)
(* Bounds of the model.                                                    *)
(***************************************************************************)
NumSources == 2
MaxDepth == 3
MaxBinds == 4
GuDepth == 2
MaxEffects == 3
NumSprites == 2
NumGroups == 2
NumTextures == 2
NumFrameGroups == 3
MaxTicks == 2
MaxQueued == 2
MaxChanges == 3
MaxAdds == 6
NumInstructionSets == 2
MaxTime == 3
MaxFrames == 3
MaxUnusedTime == 2
MaxTasks == 5
CheckCountMax == 2
MaxIdle == 1
MaxTargets == 3
MaxSystems == 3
NumSizes == 2
MaxBlendSets == 3
MaxGeometry == 2
MaxBlendDepth == 2
MaxCount == 7

(***************************************************************************)
(* JavaScript values.  undefined is the empty tuple; a frame (Rectangle)   *)
(* is <<x, width>>: the code treats x/width and y/height alike, one axis   *)
(* is kept.                                                                *)
(***************************************************************************)
Undefined == <<>>

Sources == 1..NumSources

\* TextureSource.width (logical pixels): the pooled sources are powers of two.
SourceWidth(s) == 2

\* TextureSource._resolution
SourceRes(s) == 1 + (s % 2)

\* TextureSource.pixelWidth == width * resolution
PixelWidth(s) == SourceWidth(s) * SourceRes(s)

\* source.source instanceof CanvasSource: the source of the visible canvas.
IsRoot(s) == s = 1

\* A Texture over a source: its frame is the whole source or a part of it.
Texture(s, f) == [isTexture |-> TRUE, source |-> s, frame |-> f]

FullFrame(s) == <<0, SourceWidth(s)>>
SubFrame(s) == <<1, SourceWidth(s) - 1>>

Textures == UNION {{Texture(s, FullFrame(s)), Texture(s, SubFrame(s))} : s \in Sources}

\* The RenderTarget of a source (uid == source): a surface that is no Texture.
RenderTargetOf(s) == [isTexture |-> FALSE, source |-> s, frame |-> Undefined]

\* The frame arguments callers pass: none, or an explicit rectangle.
FrameArgs == {Undefined, <<0, 1>>}

(***************************************************************************)
(* RenderTargetSystem (Mt)                                                 *)
(***************************************************************************)

\* getRenderTarget(e): e.isTexture && (e = e.source); one target per source.
getRenderTarget(e) == RenderTargetOf(e.source)

\* The viewport bind computes: the frame given, else the frame of a Texture
\* surface, scaled by the resolution (x * res + .5 | 0); else the whole target.
bindViewport(e, frame) ==
    LET s == IF frame = Undefined /\ e.isTexture THEN e.frame ELSE frame
        res == SourceRes(e.source)
    IN  IF s # Undefined
        THEN <<s[1] * res, s[2] * res>>
        ELSE <<0, PixelWidth(e.source)>>

\* wt(projectionMatrix, 0, 0, width, height, !isRoot): a = 2 / width and
\* d = sign * 2 / height with sign 1 off the root and -1 on it; the matrix is
\* kept as the width it scales by and that sign.
projection(width, flip) == [width |-> width, sign |-> IF flip THEN 1 ELSE -1]

\* bind(e, t = true, r, s): sets renderTarget, renderSurface, viewport and
\* projectionMatrix and starts a render pass on the adaptor (recorded in pass).
RT_bind(r, e, clear, frame) ==
    LET i == getRenderTarget(e)
        d == bindViewport(e, frame)
    IN  [r EXCEPT !.renderTarget = i,
                  !.renderSurface = e,
                  !.viewport = d,
                  !.projectionMatrix =
                      projection(d[2] \div SourceRes(e.source), ~IsRoot(e.source)),
                  !.pass = [target |-> i, clear |-> clear, viewport |-> d]]

\* push(e, t = CLEAR.ALL, r, s): bind, then record {renderTarget, frame: s}.
RT_push(r, e, clear, frame) ==
    LET b == RT_bind(r, e, clear, frame)
    IN  [b EXCEPT !.stack = Append(b.stack,
                      [renderTarget |-> b.renderTarget, frame |-> frame])]

\* pop(): drop the top entry, bind the new top without clearing.
RT_pop(r) ==
    LET st == SubSeq(r.stack, 1, Len(r.stack) - 1)
        e == st[Len(st)]
    IN  RT_bind([r EXCEPT !.stack = st], e.renderTarget, FALSE, e.frame)

\* renderStart({target, clear, clearColor, frame}): empty the stack and push.
RT_renderStart(r, target, clear, frame) ==
    LET p == RT_push([r EXCEPT !.stack = <<>>], target, clear, frame)
    IN  [p EXCEPT !.rootRenderTarget = p.renderTarget,
                  !.rootViewPort = p.viewport]

\* ensureDepthStencil(): a bound target without a stencil attachment gets one
\* and its pass is issued again, without clearing.
RT_ensureDepthStencil(r) ==
    IF r.renderTarget.source \in r.stencil
    THEN r
    ELSE [r EXCEPT !.stencil = @ \cup {r.renderTarget.source},
                   !.pass = [target |-> r.renderTarget, clear |-> FALSE,
                             viewport |-> r.viewport]]

RT_Init ==
    [stack |-> <<>>, renderTarget |-> Undefined, renderSurface |-> Undefined,
     viewport |-> <<0, 0>>, pass |-> Undefined,
     projectionMatrix |-> projection(0, FALSE), stencil |-> {},
     rootRenderTarget |-> Undefined, rootViewPort |-> <<0, 0>>]

(***************************************************************************)
(* GlobalUniformSystem (re)                                                *)
(*                                                                         *)
(* An option that is omitted is 0; worldColor 0 is as falsy as an omitted  *)
(* one (s || l.worldColor).  Matrices and offsets are named by a number.   *)
(***************************************************************************)
\* 4294967295, white and opaque: a packed colour is kept as one of its four
\* bytes (all four are 255).
White == 255
IdentityMatrix == 1
ZeroOffset == 1

\* The options the callers pass: the render-group pipe gives a transform and
\* a colour (offset too for a cached group), the alpha mask an offset and a
\* colour, and any of them may be falsy.
UniformArgs ==
    {a \in [size : {0}, projectionMatrix : {0},
            worldTransformMatrix : {0, 2}, worldColor : {0, 128},
            offset : {0, 2}] :
        a.offset = 0 \/ a.worldColor = 128}

\* a || b of JavaScript on numbers and object names: 0 is falsy.
OrElse(a, b) == IF a # 0 THEN a ELSE b

\* The entry bind inherits from: the top of the stack, or the defaults.
GU_enclosing(g) ==
    IF g.stackIndex # 0
    THEN g.stack[g.stackIndex]
    ELSE [projectionMatrix |-> 0, resolution |-> 0,
          worldTransformMatrix |-> IdentityMatrix, worldColor |-> White,
          offset |-> ZeroOffset]

\* this._globalUniformDataStack[i] = d on a JavaScript array (1-based here).
ArraySet(a, i, d) ==
    IF i <= Len(a) THEN [a EXCEPT ![i] = d] ELSE Append(a, d)

\* bind({size, projectionMatrix, worldTransformMatrix, worldColor, offset}):
\* builds the uniform data from the options, the bound render target (r) and
\* the enclosing entry; takes a uniform group (and a bind group) from the pool
\* or creates one, and makes the data current.
GU_bind(g, r, a) ==
    LET l == GU_enclosing(g)
        u == [projectionMatrix |->
                  IF a.projectionMatrix # 0 THEN a.projectionMatrix
                  ELSE r.projectionMatrix,
              resolution |-> OrElse(a.size, PixelWidth(r.renderTarget.source)),
              worldTransformMatrix |->
                  OrElse(a.worldTransformMatrix, l.worldTransformMatrix),
              worldColor |-> OrElse(a.worldColor, l.worldColor),
              offset |-> OrElse(a.offset, l.offset)]
    IN  [g EXCEPT !.uniformsPool = IF @ > 0 THEN @ - 1 ELSE 0,
                  !.activeUniforms = @ + 1,
                  !.bindGroupPool = IF @ > 0 THEN @ - 1 ELSE 0,
                  !.activeBindGroups = @ + 1,
                  !.current = u]

\* push(e): bind(e); stack[stackIndex++] = current.
GU_push(g, r, a) ==
    LET b == GU_bind(g, r, a)
    IN  [b EXCEPT !.stack = ArraySet(b.stack, b.stackIndex + 1, b.current),
                  !.stackIndex = @ + 1]

\* pop(): current = stack[--stackIndex - 1].
GU_pop_stale(g) ==
    [g EXCEPT !.stackIndex = @ - 1,
              !.current = g.stack[g.stackIndex]]

GU_pop(g) ==
    [g EXCEPT !.stackIndex = @ - 1,
              !.current = g.stack[g.stackIndex - 1]]

\* reset(): stackIndex = 0; the active uniform and bind groups go back to
\* their pools.
GU_reset(g) ==
    [g EXCEPT !.stackIndex = 0,
              !.uniformsPool = @ + g.activeUniforms,
              !.bindGroupPool = @ + g.activeBindGroups,
              !.activeUniforms = 0,
              !.activeBindGroups = 0]

\* start(e): reset(); push(e).
GU_start(g, r, a) == GU_push(GU_reset(g), r, a)

NoUniformData ==
    [projectionMatrix |-> 0, resolution |-> 0, worldTransformMatrix |-> 0,
     worldColor |-> 0, offset |-> 0]

GU_Init ==
    [stackIndex |-> 0, stack |-> <<>>, current |-> NoUniformData,
     uniformsPool |-> 0, activeUniforms |-> 0,
     bindGroupPool |-> 0, activeBindGroups |-> 0]

NoArgs ==
    [size |-> 0, projectionMatrix |-> 0, worldTransformMatrix |-> 0,
     worldColor |-> 0, offset |-> 0]

(***************************************************************************)
(* InstructionSet and the batch pending on it                              *)
(*                                                                         *)
(* An instruction is a record of the fields the pipes read; a field an     *)
(* instruction does not carry is undefined in the code and falsy here      *)
(* (FALSE, 0).                                                             *)
(***************************************************************************)
Instr(pipe, action, inverse, colorMask, toTexture) ==
    [renderPipeId |-> pipe, action |-> action, inverse |-> inverse,
     colorMask |-> colorMask, toTexture |-> toTexture]

IS_Init == [instructions |-> <<>>, pending |-> FALSE]

\* InstructionSet.add(x): instructions[instructionSize++] = x.
IS_add(b, x) == [b EXCEPT !.instructions = Append(@, x)]

\* Batcher.add through BatcherPipe.addToBatch: geometry waits in the batch.
Batch_add(b) == [b EXCEPT !.pending = TRUE]

\* BatcherPipe.break(r): the geometry added since the last break becomes one
\* batch instruction; nothing is emitted for an empty batch.
Batch_break(b) ==
    IF b.pending
    THEN [IS_add(b, Instr("batch", "draw", FALSE, 0, FALSE)) EXCEPT !.pending = FALSE]
    ELSE b

(***************************************************************************)
(* ColorMaskPipe (J)                                                       *)
(***************************************************************************)
RGBA == 15

\* a & b on the four channel bits.
BitAnd(a, b) ==
    LET bit(x, k) == (x \div k) % 2
    IN  bit(a, 1) * bit(b, 1) + 2 * bit(a, 2) * bit(b, 2)
        + 4 * bit(a, 4) * bit(b, 4) + 8 * bit(a, 8) * bit(b, 8)

CM_Init == [colorStack |-> <<>>, colorStackIndex |-> 0, currentColor |-> 0]

\* buildStart(): _colorStack[0] = 15, _colorStackIndex = 1, _currentColor = 15.
CM_buildStart(c) ==
    [c EXCEPT !.colorStack = ArraySet(@, 1, RGBA),
              !.colorStackIndex = 1,
              !.currentColor = RGBA]

\* The effective mask push(e) stores: stack[index - 1] & e.mask.
CM_pushed_alone(c, mask) == BitAnd(RGBA, mask)

CM_pushed(c, mask) == BitAnd(c.colorStack[c.colorStackIndex], mask)

\* push(e, t, r) on the pipe: the stack gains the effective mask; the
\* current colour follows it.
CM_push(c, mask) ==
    LET a == CM_pushed(c, mask)
    IN  [c EXCEPT !.colorStack = ArraySet(@, c.colorStackIndex + 1, a),
                  !.currentColor = a,
                  !.colorStackIndex = @ + 1]

\* push on the instruction set with a colorMask instruction for every push.
CM_pushInstr_always(c, b, mask) ==
    IS_add(Batch_break(b),
           Instr("colorMask", "colorMask", FALSE, CM_pushed(c, mask), FALSE))

\* push(e, t, r) on the instruction set: break the batch; a colorMask
\* instruction is added when the effective mask changes.
CM_pushInstr(c, b, mask) ==
    LET a == CM_pushed(c, mask)
        k == Batch_break(b)
    IN  IF a # c.currentColor
        THEN IS_add(k, Instr("colorMask", "colorMask", FALSE, a, FALSE))
        ELSE k

\* The effective mask pop() returns to: stack[--index - 1].
CM_popped(c) == c.colorStack[c.colorStackIndex - 1]

\* pop(e, t, r) on the pipe.
CM_pop(c) ==
    [c EXCEPT !.colorStackIndex = @ - 1,
              !.currentColor = CM_popped(c)]

\* pop on the instruction set that leaves the batch open.
CM_popInstr_unbroken(c, b) ==
    LET a == CM_popped(c)
    IN  IF a # c.currentColor
        THEN IS_add(b, Instr("colorMask", "colorMask", FALSE, a, FALSE))
        ELSE b

\* pop(e, t, r) on the instruction set.
CM_popInstr(c, b) ==
    LET a == CM_popped(c)
        k == Batch_break(b)
    IN  IF a # c.currentColor
        THEN IS_add(k, Instr("colorMask", "colorMask", FALSE, a, FALSE))
        ELSE k

\* execute(e): renderer.colorMask.setMask(e.colorMask).
CM_execute(g, e) == [g EXCEPT !.colorMask = e.colorMask]

(***************************************************************************)
(* The state the pipes set on the renderer: renderer.stencil               *)
(* .setStencilMode(mode, ref), renderer.colorMask.setMask(mask) and the    *)
(* stencil plane cleared by renderTarget.clear(null, CLEAR.STENCIL).       *)
(***************************************************************************)
GPU_Init ==
    [stencilMode |-> "DISABLED", stencilRef |-> 0, colorMask |-> RGBA,
     stencilCleared |-> FALSE]

setStencilMode(g, mode, ref) ==
    [g EXCEPT !.stencilMode = mode, !.stencilRef = ref]

(***************************************************************************)
(* StencilMaskPipe (Q)                                                     *)
(***************************************************************************)
SM_Init == [maskStackHash |-> <<>>, maskHash |-> <<>>]

\* h[k] ?? (h[k] = 0) on an object used as a map: the map after it.
Ensure(h, k) == IF k \in DOMAIN h THEN h ELSE h @@ (k :> 0)

\* The reference count of a render target: 0 when it has none yet.
Count(h, k) == IF k \in DOMAIN h THEN h[k] ELSE 0

\* push(e, t, r) on the instruction set: break, pushMaskBegin, what
\* mask.collectRenderables adds (the mask's geometry in a batch, then the
\* instructions `extra` of what cannot be batched), break, pushMaskEnd.
SM_pushInstrOf(b, inverse, extra) ==
    LET b1 == IS_add(Batch_break(b),
                     Instr("stencilMask", "pushMaskBegin", inverse, 0, FALSE))
        b2 == Batch_break(Batch_add(b1))
        b3 == [b2 EXCEPT !.instructions = @ \o extra]
    IN  IS_add(b3, Instr("stencilMask", "pushMaskEnd", inverse, 0, FALSE))

\* push for a mask that is one batch of geometry.
SM_pushInstr(b, inverse) == SM_pushInstrOf(b, inverse, <<>>)

\* push on the pipe that keeps the place of an effect it already knows.
SM_pushOf_placeKept(s, b, mask, uid, extra) ==
    LET start == IF mask \in DOMAIN s.maskHash
                 THEN s.maskHash[mask].instructionsStart
                 ELSE Len(Batch_break(b).instructions) + 1
        size == Len(SM_pushInstrOf(b, FALSE, extra).instructions)
    IN  [s EXCEPT !.maskHash = (mask :> [instructionsStart |-> start,
                                          instructionsLength |-> size - start - 1])
                                @@ @,
                  !.maskStackHash = Ensure(@, uid)]

\* push(e, t, r) on the pipe: the place and the number of the mask's
\* instructions, and a count for the render target bound at build time.
SM_pushOf(s, b, mask, uid, extra) ==
    LET start == Len(Batch_break(b).instructions) + 1
        size == Len(SM_pushInstrOf(b, FALSE, extra).instructions)
    IN  [s EXCEPT !.maskHash = (mask :> [instructionsStart |-> start,
                                          instructionsLength |-> size - start - 1])
                                @@ @,
                  !.maskStackHash = Ensure(@, uid)]

SM_push(s, b, mask, uid) == SM_pushOf(s, b, mask, uid, <<>>)

\* The instructions pop copies: instructionsLength of them from
\* instructionsStart (0-based in the code, 1-based here).
SM_copied(b, h) ==
    [l \in 1..h.instructionsLength |-> b.instructions[h.instructionsStart + l]]

\* pop(e, t, r) on the instruction set: break, popMaskBegin with the
\* container's inverse, the mask's instructions again, popMaskEnd (which
\* carries no inverse).
SM_popInstr(s, b, mask, inverse) ==
    LET b1 == IS_add(Batch_break(b),
                     Instr("stencilMask", "popMaskBegin", inverse, 0, FALSE))
        b2 == [b1 EXCEPT !.instructions = @ \o SM_copied(b1, s.maskHash[mask])]
    IN  IS_add(b2, Instr("stencilMask", "popMaskEnd", FALSE, 0, FALSE))

\* pop(e, t, r) on the pipe: the copy loop advances instructionsStart.
SM_pop(s, mask) ==
    [s EXCEPT !.maskHash[mask].instructionsStart = @ + s.maskHash[mask].instructionsLength]

\* The comparison pushMaskEnd and popMaskEnd select.
SM_activeMode(e) ==
    IF e.inverse THEN "INVERSE_MASK_ACTIVE" ELSE "MASK_ACTIVE"

\* execute(e) that leaves the colour writes on while a mask is drawn.
SM_executeGpu_colorKept(g, e, i) ==
    CASE e.action = "pushMaskBegin" -> setStencilMode(g, "RENDERING_MASK_ADD", i)
      [] e.action = "pushMaskEnd" ->
            [setStencilMode(g, SM_activeMode(e), i) EXCEPT !.colorMask = RGBA]
      [] e.action = "popMaskBegin" ->
            [setStencilMode(g, "RENDERING_MASK_REMOVE", i) EXCEPT !.colorMask = 0]
      [] e.action = "popMaskEnd" ->
            [setStencilMode(g, SM_activeMode(e), i) EXCEPT !.colorMask = RGBA]
      [] OTHER -> g

\* execute(e), the renderer side, with i the count of the bound target.
SM_executeGpu(g, e, i) ==
    CASE e.action = "pushMaskBegin" ->
            [setStencilMode(g, "RENDERING_MASK_ADD", i) EXCEPT !.colorMask = 0]
      [] e.action = "pushMaskEnd" ->
            [setStencilMode(g, SM_activeMode(e), i) EXCEPT !.colorMask = RGBA]
      [] e.action = "popMaskBegin" ->
            IF i # 0
            THEN [setStencilMode(g, "RENDERING_MASK_REMOVE", i) EXCEPT !.colorMask = 0]
            ELSE [setStencilMode(g, "DISABLED", i) EXCEPT !.colorMask = 0,
                                                         !.stencilCleared = TRUE]
      [] e.action = "popMaskEnd" ->
            [setStencilMode(g, SM_activeMode(e), i) EXCEPT !.colorMask = RGBA]
      [] OTHER -> g

\* execute(e), the count: i++ at pushMaskBegin before the mode of pushMaskEnd
\* is set, i-- at popMaskBegin after its mode is set.
SM_count_kept(e, i) ==
    CASE e.action = "pushMaskBegin" -> i + 1
      [] OTHER -> i

SM_count(e, i) ==
    CASE e.action = "pushMaskBegin" -> i + 1
      [] e.action = "popMaskBegin" -> i - 1
      [] OTHER -> i

\* execute(e) on the pipe: this._maskStackHash[uid] = i.
SM_execute(s, e, uid) ==
    [s EXCEPT !.maskStackHash =
        (uid :> SM_count(e, Count(s.maskStackHash, uid))) @@ @]

\* execute(e) on the renderer: the mode is set with the count before the
\* increment (pushMaskBegin) or the decrement (popMaskBegin), after it else.
SM_executeRenderer(g, s, e, uid) ==
    SM_executeGpu(g, e, Count(s.maskStackHash, uid))

(***************************************************************************)
(* AlphaMaskPipe (X), with the pools it draws from (BigPool for the filter *)
(* effects, TexturePool for the offscreen textures) and the filter stack   *)
(* of the FilterSystem it pushes to.                                       *)
(***************************************************************************)
AM_Init ==
    [activeMaskStage |-> <<>>, effectsOut |-> {}, texturesOut |-> {},
     filterStack |-> <<>>, released |-> <<>>, poolFault |-> FALSE]

Min(S) == CHOOSE x \in S : \A y \in S : x <= y

\* BigPool.get(AlphaMaskEffect): an effect that is not in use.
Pool_get(a) == Min((1..(Cardinality(a.effectsOut) + 1)) \ a.effectsOut)

\* TexturePool.getOptimalTexture(w, h, res, aa): a texture that is not in
\* use (a new one when all are); its source is a power of two, its frame the
\* size asked for.  Source 1 is the canvas.
Pool_texture(a) == Min((2..(Cardinality(a.texturesOut) + 2)) \ a.texturesOut)

\* push(e, t, r) up to the mask's content: break, pushMaskBegin.
AM_pushBeginInstr(b, inverse, toTexture) ==
    IS_add(Batch_break(b),
           Instr("alphaMask", "pushMaskBegin", inverse, 0, toTexture))

\* push(e, t, r) after the mask's content: break, pushMaskEnd.
AM_pushEndInstr(b, inverse, toTexture) ==
    IS_add(Batch_break(b),
           Instr("alphaMask", "pushMaskEnd", inverse, 0, toTexture))

\* pop(e, t, r): break, popMaskEnd.
AM_popInstr(b, inverse, toTexture) ==
    IS_add(Batch_break(b),
           Instr("alphaMask", "popMaskEnd", inverse, 0, toTexture))

\* The options of globalUniforms.push at pushMaskBegin: {offset, worldColor}.
AM_uniformArgs ==
    [size |-> 0, projectionMatrix |-> 0, worldTransformMatrix |-> 0,
     worldColor |-> White, offset |-> 2]

\* execute(e), pushMaskBegin: take a filter effect; for a mask rendered to
\* texture take a texture, push it as render target (cleared, no frame
\* given) and push the uniforms; record the stage.
AM_pushMaskBegin(w, e) ==
    LET s == Pool_get(w.am)
        l == Pool_texture(w.am)
    IN  IF e.toTexture
        THEN [rt |-> RT_push(w.rt, Texture(l, SubFrame(l)), TRUE, Undefined),
              gu |-> GU_push(w.gu,
                             RT_push(w.rt, Texture(l, SubFrame(l)), TRUE, Undefined),
                             AM_uniformArgs),
              am |-> [w.am EXCEPT
                        !.effectsOut = @ \cup {s},
                        !.texturesOut = @ \cup {l},
                        !.activeMaskStage =
                            Append(@, [filterEffect |-> s, filterTexture |-> l])]]
        ELSE [w EXCEPT
                !.am.effectsOut = @ \cup {s},
                !.am.activeMaskStage =
                    Append(@, [filterEffect |-> s, filterTexture |-> 0])]

\* execute(e), pushMaskEnd: for a mask rendered to texture pop the render
\* target and the uniforms; push the stage's effect as a filter.
AM_pushMaskEnd_uniformsKept(w, e) ==
    LET s == w.am.activeMaskStage[Len(w.am.activeMaskStage)]
        f == [w EXCEPT !.am.filterStack = Append(@, s.filterEffect)]
    IN  IF e.toTexture
        THEN [f EXCEPT !.rt = RT_pop(w.rt)]
        ELSE f

AM_pushMaskEnd(w, e) ==
    LET s == w.am.activeMaskStage[Len(w.am.activeMaskStage)]
        f == [w EXCEPT !.am.filterStack = Append(@, s.filterEffect)]
    IN  IF e.toTexture
        THEN [f EXCEPT !.rt = RT_pop(w.rt), !.gu = GU_pop(w.gu)]
        ELSE f

\* Returning x to a pool that holds the set out of objects in use.
Pool_fault(out, x) == x \notin out

\* execute(e), popMaskEnd: pop the filter and the stage; return the texture
\* of a mask rendered to texture, and the effect.
AM_popMaskEnd(w, e) ==
    LET st == w.am.activeMaskStage
        s == st[Len(st)]
    IN  [w EXCEPT
            !.am.filterStack = SubSeq(@, 1, Len(@) - 1),
            !.am.activeMaskStage = SubSeq(st, 1, Len(st) - 1),
            !.am.texturesOut = IF e.toTexture THEN @ \ {s.filterTexture} ELSE @,
            !.am.effectsOut = @ \ {s.filterEffect},
            !.am.released = Append(@, s.filterEffect),
            !.am.poolFault =
                \/ @
                \/ Pool_fault(w.am.effectsOut, s.filterEffect)
                \/ (e.toTexture /\ Pool_fault(w.am.texturesOut, s.filterTexture))]

\* execute(e)
AM_execute(w, e) ==
    CASE e.action = "pushMaskBegin" -> AM_pushMaskBegin(w, e)
      [] e.action = "pushMaskEnd" -> AM_pushMaskEnd(w, e)
      [] e.action = "popMaskEnd" -> AM_popMaskEnd(w, e)
      [] OTHER -> w

(***************************************************************************)
(* Render groups and sprites (RenderGroupSystem $, SpritePipe K)           *)
(*                                                                         *)
(* A render group: structureDidChange, childrenRenderablesToUpdate (list   *)
(* and index; null is 0), and its instruction set: the sprites batched, in *)
(* order, with the texture sources of the batch.  A sprite: the group it   *)
(* is attached to (0 for none), its texture, didViewUpdate, and the        *)
(* texture of its batchable record (0 before the record exists).           *)
(* The history of the last render, per group: what held when the group     *)
(* was taken up and what was done to it.                                   *)
(***************************************************************************)
Groups == 1..NumGroups
Sprites == 1..NumSprites
SpriteTextures == 1..NumTextures

NoLog ==
    [entrySdc |-> FALSE, queued |-> {}, misfit |-> {}, rebuilt |-> FALSE,
     before |-> <<>>, updated |-> {}, processed |-> FALSE]

Scene_Init ==
    [groups |-> [g \in Groups |->
                    [structureDidChange |-> FALSE, list |-> <<>>, index |-> 0,
                     instructions |-> <<>>, batchTextures |-> {}]],
     sprites |-> [s \in Sprites |->
                    [group |-> 0, texture |-> 1, didViewUpdate |-> FALSE,
                     gpuTexture |-> 0]],
     log |-> [g \in Groups |-> NoLog]]

\* clearList (q): null the entries from index e up to the first null.
RECURSIVE clearList(_, _)
clearList(n, e) ==
    IF e < Len(n) /\ n[e + 1] # 0
    THEN clearList([n EXCEPT ![e + 1] = 0], e + 1)
    ELSE n

\* Batcher.checkAndUpdateTexture(gpuSprite, texture): whether the batch of
\* the sprite holds the source of the texture.
checkAndUpdateTexture(w, s) ==
    w.sprites[s].texture \in w.groups[w.sprites[s].group].batchTextures

\* SpritePipe.validateRenderable(e): !batcher.checkAndUpdateTexture(gpu, e._texture).
validateRenderable_same(w, s) == checkAndUpdateTexture(w, s)

validateRenderable(w, s) == ~checkAndUpdateTexture(w, s)

\* The batchable record after checkAndUpdateTexture succeeded on it.
validated(w, s) ==
    [w EXCEPT !.sprites[s].gpuTexture = w.sprites[s].texture]

\* validateRenderables (st), the loop from entry i (0-based): stop at the
\* first renderable whose validation asks for a rebuild.
RECURSIVE validateFrom_noBreak(_, _, _)
validateFrom_noBreak(w, g, i) ==
    IF i >= w.groups[g].index
    THEN w
    ELSE LET a == w.groups[g].list[i + 1]
         IN  IF validateRenderable(w, a)
             THEN validateFrom_noBreak(
                      [w EXCEPT !.groups[g].structureDidChange = TRUE], g, i + 1)
             ELSE validateFrom_noBreak(
                      [validated(w, a) EXCEPT !.groups[g].structureDidChange = FALSE],
                      g, i + 1)

RECURSIVE validateFrom(_, _, _)
validateFrom(w, g, i) ==
    IF i >= w.groups[g].index
    THEN [w EXCEPT !.groups[g].structureDidChange = FALSE]
    ELSE LET a == w.groups[g].list[i + 1]
         IN  IF validateRenderable(w, a)
             THEN [w EXCEPT !.groups[g].structureDidChange = TRUE]
             ELSE validateFrom(validated(w, a), g, i + 1)

\* validateRenderables (st)
validateRenderables(w, g) == validateFrom(w, g, 0)

\* SpritePipe.updateRenderable through RenderGroup.updateRenderable: the
\* batchable record takes the texture of a sprite whose view changed, the
\* batch element is rewritten, didViewUpdate is cleared.
updateRenderable(w, g, s) ==
    [w EXCEPT !.sprites[s].gpuTexture = w.sprites[s].texture,
              !.sprites[s].didViewUpdate = FALSE,
              !.log[g].updated = @ \cup {s}]

\* _updateRenderables(e), the loop from entry i, then clearList(list, index).
RECURSIVE updateRenderablesFrom(_, _, _)
updateRenderablesFrom(w, g, i) ==
    IF i >= w.groups[g].index
    THEN [w EXCEPT !.groups[g].list = clearList(@, w.groups[g].index)]
    ELSE LET s == w.groups[g].list[i + 1]
         IN  updateRenderablesFrom(
                 IF w.sprites[s].didViewUpdate THEN updateRenderable(w, g, s) ELSE w,
                 g, i + 1)

\* _updateRenderables(e)
updateRenderables(w, g) == updateRenderablesFrom(w, g, 0)

\* The sprites attached to a group, in the order of the scene graph.
RECURSIVE SpritesFrom(_, _, _)
SpritesFrom(w, g, s) ==
    IF s > NumSprites THEN <<>>
    ELSE (IF w.sprites[s].group = g THEN <<s>> ELSE <<>>) \o SpritesFrom(w, g, s + 1)

\* _buildInstructions(e, t): reset the instruction set and collect the
\* renderables: SpritePipe.addRenderable gives each sprite's batchable
\* record its texture and adds it to the batch; the walk clears
\* didViewUpdate.
buildInstructions(w, g) ==
    LET in == SpritesFrom(w, g, 1)
        members == {in[i] : i \in DOMAIN in}
    IN  [w EXCEPT
            !.groups[g].instructions = in,
            !.groups[g].batchTextures = {w.sprites[s].texture : s \in members},
            !.sprites = [s \in Sprites |->
                            IF s \in members
                            THEN [w.sprites[s] EXCEPT
                                     !.gpuTexture = w.sprites[s].texture,
                                     !.didViewUpdate = FALSE]
                            ELSE w.sprites[s]],
            !.log[g].rebuilt = TRUE]

\* What the history of a render records when a group is taken up.
entered(w, g) ==
    LET q == {w.groups[g].list[i] : i \in 1..w.groups[g].index}
    IN  [w EXCEPT !.log[g] =
            [entrySdc |-> w.groups[g].structureDidChange,
             queued |-> q,
             misfit |-> {s \in q : w.sprites[s].texture
                                       \notin w.groups[g].batchTextures},
             rebuilt |-> FALSE,
             before |-> w.groups[g].instructions,
             updated |-> {},
             processed |-> TRUE]]

\* _updateRenderGroups(e) up to the decision: clear the queue of a group
\* whose structure changed, validate the queued renderables of one whose
\* structure did not.
checkStructure(w, g) ==
    IF w.groups[g].structureDidChange
    THEN [w EXCEPT !.groups[g].list = clearList(@, 0)]
    ELSE validateRenderables(w, g)

\* _updateRenderGroups(e) from the decision on: rebuild and clear the flag,
\* or update the queued renderables in place; then index = 0.
rebuildOrUpdate(w, g) ==
    LET d == IF w.groups[g].structureDidChange
             THEN buildInstructions([w EXCEPT !.groups[g].structureDidChange = FALSE], g)
             ELSE updateRenderables(w, g)
    IN  [d EXCEPT !.groups[g].index = 0]

\* _updateRenderGroups(e) for one group.  Between the two halves the code
\* runs updateRenderGroupTransforms(e); the scene kept here has no
\* transforms, so no node is registered for propagation and that call
\* changes nothing of the state below.  runOnRender and batch.upload do not
\* touch it either.
updateRenderGroup(w, g) == rebuildOrUpdate(checkStructure(entered(w, g), g), g)

\* _updateRenderGroups(e): the group, then its renderGroupChildren (group
\* g + 1 is the child of group g).
RECURSIVE updateRenderGroups(_, _)
updateRenderGroups(w, g) ==
    IF g > NumGroups THEN w
    ELSE updateRenderGroups(updateRenderGroup(w, g), g + 1)

\* The history of the last render ends with the next change of the scene.
forgotten(w) == [w EXCEPT !.log = [g \in Groups |-> NoLog]]

\* Container.addChild / removeChild: the sprite joins or leaves a group,
\* whose structure changed.
setGroup(w, s, g) ==
    LET old == w.sprites[s].group
        touched == {old, g} \ {0}
    IN  [w EXCEPT !.sprites[s].group = g,
                  !.groups = [h \in Groups |->
                                 IF h \in touched
                                 THEN [w.groups[h] EXCEPT !.structureDidChange = TRUE]
                                 ELSE w.groups[h]]]

\* Sprite.texture = x (ShooterComponent.tick: this.player.texture = ...):
\* onViewUpdate marks the view changed and queues the sprite, once, in its
\* render group.
setTexture(w, s, x) ==
    LET g == w.sprites[s].group
        v == [w EXCEPT !.sprites[s].texture = x,
                       !.sprites[s].didViewUpdate = TRUE]
    IN  IF w.sprites[s].didViewUpdate \/ g = 0
        THEN v
        ELSE [v EXCEPT !.groups[g].list = ArraySet(@, w.groups[g].index + 1, s),
                       !.groups[g].index = @ + 1]

(***************************************************************************)
(* The steps of one render() (RenderGroupSystem $, RenderGroupPipe j,      *)
(* executeInstructions N)                                                  *)
(*                                                                         *)
(* The render groups of the scene form a tree under group 1, the render    *)
(* group of the rendered container (parent 0: none).  Of a group are kept  *)
(* structureDidChange, isCachedAsTexture and textureNeedsUpdate; trace is  *)
(* the sequence of the steps the last render() took, each <<step, group>>. *)
(***************************************************************************)
FrameGroups == 1..NumFrameGroups

FR_Init ==
    [parent |-> [g \in FrameGroups |-> 0],
     structureDidChange |-> [g \in FrameGroups |-> FALSE],
     isCachedAsTexture |-> [g \in FrameGroups |-> FALSE],
     textureNeedsUpdate |-> [g \in FrameGroups |-> FALSE],
     trace |-> <<>>]

\* group.renderGroupChildren, from child number h on.
RECURSIVE FR_childrenFrom(_, _, _)
FR_childrenFrom(f, g, h) ==
    IF h > NumFrameGroups THEN <<>>
    ELSE (IF f.parent[h] = g THEN <<h>> ELSE <<>>) \o FR_childrenFrom(f, g, h + 1)

\* group.renderGroupChildren
FR_children(f, g) == FR_childrenFrom(f, g, 1)

FR_step(f, step, g) == [f EXCEPT !.trace = Append(@, <<step, g>>)]

\* _updateCachedRenderGroups(e, t): a cached group whose texture needs an
\* update takes a texture from the pool; when that is another texture than
\* before, the structure of the parent group changed.  same holds the
\* groups to which the pool hands the texture they had.
RECURSIVE FR_updateCached(_, _, _)
RECURSIVE FR_updateCachedOf(_, _, _)
FR_updateCachedOf(f, cs, same) ==
    IF cs = <<>> THEN f
    ELSE FR_updateCachedOf(FR_updateCached(f, cs[Len(cs)], same),
                           SubSeq(cs, 1, Len(cs) - 1), same)

FR_updateCached(f, g, same) ==
    IF f.isCachedAsTexture[g] /\ ~f.textureNeedsUpdate[g]
    THEN f
    ELSE LET d == FR_updateCachedOf(f, FR_children(f, g), same)
         IN  IF /\ d.isCachedAsTexture[g]
                /\ d.textureNeedsUpdate[g]
                /\ g \notin same
                /\ d.parent[g] # 0
             THEN [d EXCEPT !.structureDidChange[d.parent[g]] = TRUE]
             ELSE d

\* _buildInstructions(e, t) or _updateRenderables(e), as
\* _updateRenderGroups chooses between them.
FR_buildOrUpdate(f, g) ==
    IF f.structureDidChange[g]
    THEN FR_step([f EXCEPT !.structureDidChange[g] = FALSE], "build", g)
    ELSE FR_step(f, "update", g)

FR_updateOne_uploadFirst(f, g) ==
    FR_buildOrUpdate(FR_step(FR_step(f, "transform", g), "upload", g), g)

\* _updateRenderGroups(e) for the group itself: validate or clear the
\* queue, updateRenderGroupTransforms(e), build or update, batch.upload.
FR_updateOne(f, g) ==
    FR_step(FR_buildOrUpdate(FR_step(f, "transform", g), g), "upload", g)

\* _updateRenderGroups(e): the group, then its renderGroupChildren unless it
\* is cached and its texture needs no update.
RECURSIVE FR_updateRenderGroups(_, _)
RECURSIVE FR_updateRenderGroupsOf(_, _)
FR_updateRenderGroupsOf(f, cs) ==
    IF cs = <<>> THEN f
    ELSE FR_updateRenderGroupsOf(FR_updateRenderGroups(f, Head(cs)), Tail(cs))

FR_updateRenderGroups(f, g) ==
    LET d == FR_updateOne(f, g)
    IN  IF d.isCachedAsTexture[g] /\ ~d.textureNeedsUpdate[g]
        THEN d
        ELSE FR_updateRenderGroupsOf(d, FR_children(d, g))

\* executeInstructions (N) of a group: its instructions in order; the
\* instruction of a child group is executed by RenderGroupPipe.execute:
\* directly, or, for a cached group, only when its texture needs an update,
\* which is then cleared.
RECURSIVE FR_executeInstructions(_, _)
RECURSIVE FR_executeOf(_, _)
FR_executeOf(f, cs) ==
    IF cs = <<>> THEN f
    ELSE LET c == Head(cs)
             d == IF ~f.isCachedAsTexture[c]
                  THEN FR_executeInstructions(f, c)
                  ELSE IF f.textureNeedsUpdate[c]
                       THEN FR_executeInstructions(
                                [f EXCEPT !.textureNeedsUpdate[c] = FALSE], c)
                       ELSE f
         IN  FR_executeOf(d, Tail(cs))

FR_executeInstructions(f, g) ==
    FR_executeOf(FR_step(f, "execute", g), FR_children(f, g))

\* render({container, transform})
FR_render(f, same) ==
    FR_executeInstructions(
        FR_updateRenderGroups(
            FR_updateCached([f EXCEPT !.trace = <<>>], 1, same), 1), 1)

\* Container.addChild of a container that is a render group: it becomes a
\* child of the group, whose structure changed.
FR_attach(f, g, p) ==
    [f EXCEPT !.parent[g] = p,
              !.structureDidChange[p] = TRUE,
              !.structureDidChange[g] = TRUE,
              !.trace = <<>>]

\* Container.removeChild of a container that is a render group.
FR_detach(f, g) ==
    [f EXCEPT !.parent[g] = 0,
              !.structureDidChange[f.parent[g]] = TRUE,
              !.trace = <<>>]

\* The groups attached under the rendered one, it included.
RECURSIVE FR_attached(_, _)
FR_attached(f, g) ==
    g = 1 \/ (f.parent[g] # 0 /\ FR_attached(f, f.parent[g]))

(***************************************************************************)
(* Transform propagation (Be updateRenderGroupTransforms, Ut, rt, tt)      *)
(*                                                                         *)
(* The scene: container 1 is the rendered container, the root of the top   *)
(* render group; 2 is its child; 3, a child of 2, is the root of a nested  *)
(* render group; 4 is a sprite the application moves about.  A render      *)
(* group is named by its root.  A matrix is the map x -> s*x + t, kept as  *)
(* <<s, t>>; an alpha is kept in thousandths; the colours stay white.      *)
(***************************************************************************)
TNodes == 1..4
TGroups == {1, 3}
Sprite == 4
BucketDepths == 1..3

Identity == <<1, 0>>
Doubled == <<2, 0>>
Shifted == <<1, 1>>

\* The local transforms the application gives container n: neighbours in
\* the tree get transforms that do not commute.
Locals(n) == {Identity, IF n % 2 = 0 THEN Doubled ELSE Shifted}

\* Matrix.appendFrom(a, b): a applied first, then b.
appendFrom(a, b) == <<b[1] * a[1], b[1] * a[2] + b[2]>>

AlphaOne == 1000
\* The alphas the application gives container n: 0.5 under 0.8 under 1.0
\* along the chain, 1.5 as an alpha out of range, 0 for the sprite.
Alphas(n) ==
    CASE n = 2 -> {AlphaOne, 800, 1500}
      [] n = Sprite -> {AlphaOne, 0}
      [] OTHER -> {AlphaOne, 500}
WhiteRGB == 16777215

\* t < 0 ? 0 : t > 1 ? 1 : t
Clamp(a) == IF a < 0 THEN 0 ELSE IF a > AlphaOne THEN AlphaOne ELSE a

\* the product of two alphas
Times(a, b) == (a * b) \div AlphaOne

\* color + ((alpha * 255 | 0) << 24), in the 32-bit integers of <<
ColorAlpha(color, a) ==
    LET byte == (a * 255) \div AlphaOne
    IN  color + (IF byte >= 128 THEN byte - 256 ELSE byte) * 16777216

NoBucket == [list |-> <<>>, index |-> 0]

\* The bits of _updateFlags: colour (ye), blend mode (ke), visibility (Ce);
\* et is all of them.
UpdateFlags == {"color", "blend", "visible"}

\* localDisplayStatus of a container that is visible, renderable and not
\* culled, and after visible = false
Displayed == 7
Hidden == 5

\* Et, the container that stands for the parent at the top of a render
\* group.
Et == [groupAlpha |-> AlphaOne, groupBlendMode |-> "normal",
       globalDisplayStatus |-> Displayed]

TF_Init ==
    [nodes |-> [n \in TNodes |->
        [parent |-> IF n = Sprite THEN 0 ELSE n - 1,
         parentRenderGroup |-> IF n \in {2, 3} THEN 1 ELSE 0,
         relativeRenderGroupDepth |-> IF n \in {2, 3} THEN n - 1 ELSE 0,
         localTransform |-> Identity,
         relativeGroupTransform |-> Identity,
         localAlpha |-> AlphaOne,
         groupAlpha |-> AlphaOne,
         groupColorAlpha |-> ColorAlpha(WhiteRGB, AlphaOne),
         localBlendMode |-> "inherit",
         groupBlendMode |-> "normal",
         localDisplayStatus |-> Displayed,
         globalDisplayStatus |-> Displayed,
         updateFlags |-> {},
         didChange |-> FALSE,
         updateTick |-> -1]],
     groups |-> [g \in TGroups |->
        [updateTick |-> 0,
         childrenToUpdate |-> [d \in BucketDepths |-> NoBucket],
         worldTransform |-> Identity,
         worldAlpha |-> AlphaOne,
         worldColorAlpha |-> ColorAlpha(WhiteRGB, AlphaOne),
         structureDidChange |-> FALSE]],
     passes |-> <<>>,
     repeated |-> FALSE,
     changes |-> 0]

\* container.renderGroup: the container is the root of a render group.
IsGroupRoot(n) == n \in TGroups

\* group.renderGroupParent
GroupParent(w, g) == w.nodes[g].parentRenderGroup

\* RenderGroup.onChildUpdate(child): the child joins the bucket of its depth.
onChildUpdate(w, n) ==
    LET g == w.nodes[n].parentRenderGroup
        d == w.nodes[n].relativeRenderGroupDepth
        b == w.groups[g].childrenToUpdate[d]
    IN  [w EXCEPT !.groups[g].childrenToUpdate[d] =
            [list |-> ArraySet(b.list, b.index + 1, n), index |-> b.index + 1]]

\* Container._onUpdate(): a container that had not changed is marked and
\* registered with its render group, if it has one.
onUpdate(w, n) ==
    IF w.nodes[n].didChange THEN w
    ELSE LET v == [w EXCEPT !.nodes[n].didChange = TRUE]
         IN  IF w.nodes[n].parentRenderGroup = 0 THEN v ELSE onChildUpdate(v, n)

\* container.position / scale = ...: the local transform becomes v.
setTransform(w, n, v) ==
    onUpdate([w EXCEPT !.nodes[n].localTransform = v], n)

\* container.alpha = a
setAlpha(w, n, a) ==
    onUpdate([w EXCEPT !.nodes[n].localAlpha = a,
                       !.nodes[n].updateFlags = @ \cup {"color"}], n)

\* container.blendMode = m
setBlendMode(w, n, m) ==
    onUpdate([w EXCEPT !.nodes[n].localBlendMode = m,
                       !.nodes[n].updateFlags = @ \cup {"blend"}], n)

\* container.visible = v
setVisible(w, n, v) ==
    onUpdate([w EXCEPT !.nodes[n].localDisplayStatus = IF v THEN Displayed ELSE Hidden,
                       !.nodes[n].updateFlags = @ \cup {"visible"}], n)

\* Container.removeChild(child), RenderGroup.removeChild: the child leaves
\* its render group, whose structure changed; the buckets keep its entries.
removeChild(w, n) ==
    LET g == w.nodes[n].parentRenderGroup
    IN  [w EXCEPT !.nodes[n].parent = 0,
                  !.nodes[n].parentRenderGroup = 0,
                  !.groups[g].structureDidChange = TRUE]

\* Container.addChild(child), RenderGroup.addChild: the child joins the
\* render group of its parent at the depth below it, with every update
\* flag set and updateTick -1, and is registered.
addChild(w, p, n) ==
    LET g == IF IsGroupRoot(p) THEN p ELSE w.nodes[p].parentRenderGroup
        d == IF IsGroupRoot(p) THEN 1 ELSE w.nodes[p].relativeRenderGroupDepth + 1
    IN  onChildUpdate(
            [w EXCEPT !.nodes[n].parent = p,
                      !.nodes[n].parentRenderGroup = g,
                      !.nodes[n].relativeRenderGroupDepth = d,
                      !.nodes[n].updateFlags = UpdateFlags,
                      !.nodes[n].didChange = TRUE,
                      !.nodes[n].updateTick = -1,
                      !.groups[g].structureDidChange = TRUE], n)

\* Ut that copies the relative transform of the root and ignores the world
\* transform of the parent group.
updateRenderGroupTransform_unparented(w, g) ==
    LET e == w.nodes[g]
        r == GroupParent(w, g)
        m == IF r # 0 THEN e.relativeGroupTransform ELSE e.localTransform
        a == Clamp(IF r # 0 THEN Times(e.groupAlpha, w.groups[r].worldAlpha)
                   ELSE e.localAlpha)
    IN  [w EXCEPT !.groups[g].worldTransform = m,
                  !.groups[g].worldAlpha = a,
                  !.groups[g].worldColorAlpha = ColorAlpha(WhiteRGB, a)]

\* updateRenderGroupTransform (Ut): the world transform and alpha of a group.
updateRenderGroupTransform(w, g) ==
    LET e == w.nodes[g]
        r == GroupParent(w, g)
        m == IF r # 0
             THEN appendFrom(e.relativeGroupTransform, w.groups[r].worldTransform)
             ELSE e.localTransform
        a == Clamp(IF r # 0 THEN Times(e.groupAlpha, w.groups[r].worldAlpha)
                   ELSE e.localAlpha)
    IN  [w EXCEPT !.groups[g].worldTransform = m,
                  !.groups[g].worldAlpha = a,
                  !.groups[g].worldColorAlpha = ColorAlpha(WhiteRGB, a)]

\* tt that stores the product of the alphas as it is.
updateColorBlendVisibility_unclamped(w, n, e, t) ==
    LET r == Times(w.nodes[n].localAlpha, e.groupAlpha)
        c == IF "color" \in t
             THEN [w EXCEPT !.nodes[n].groupAlpha = r,
                            !.nodes[n].groupColorAlpha = ColorAlpha(WhiteRGB, r)]
             ELSE w
    IN  [c EXCEPT !.nodes[n].updateFlags = {}]

\* updateColorBlendVisibility (tt) of node n under the parent e (or Et)
\* with the flags t: the group alpha and packed colour, the group blend
\* mode, the global display status, each under its flag; the flags of the
\* node are cleared.
updateColorBlendVisibility(w, n, e, t) ==
    LET r == Clamp(Times(w.nodes[n].localAlpha, e.groupAlpha))
        c == IF "color" \in t
             THEN [w EXCEPT !.nodes[n].groupAlpha = r,
                            !.nodes[n].groupColorAlpha = ColorAlpha(WhiteRGB, r)]
             ELSE w
        b == IF "blend" \in t
             THEN [c EXCEPT !.nodes[n].groupBlendMode =
                      IF w.nodes[n].localBlendMode = "inherit"
                      THEN e.groupBlendMode ELSE w.nodes[n].localBlendMode]
             ELSE c
        v == IF "visible" \in t
             THEN [b EXCEPT !.nodes[n].globalDisplayStatus =
                      BitAnd(w.nodes[n].localDisplayStatus, e.globalDisplayStatus)]
             ELSE b
    IN  [v EXCEPT !.nodes[n].updateFlags = {}]

\* The pass under way records each container it recomputes and each
\* renderable update it requests.
visited(w, n) ==
    [w EXCEPT !.passes[Len(w.passes)].visited = Append(@, n)]

requested(w, n) ==
    [w EXCEPT !.passes[Len(w.passes)].updates = Append(@, n)]

\* rt that does not stamp the container with the tick of the pass.
updateTransformOf_tickKept(w, n, e, t) ==
    LET v == visited([w EXCEPT !.nodes[n].didChange = FALSE], n)
        s == w.nodes[n].parent
        r == w.nodes[n].localTransform
    IN  IF s # 0 /\ ~IsGroupRoot(s)
        THEN LET f == t \cup w.nodes[n].updateFlags
                 m == [v EXCEPT !.nodes[n].relativeGroupTransform =
                          appendFrom(r, w.nodes[s].relativeGroupTransform)]
             IN  IF f # {} THEN updateColorBlendVisibility(m, n, m.nodes[s], f) ELSE m
        ELSE LET f == w.nodes[n].updateFlags
                 m == [v EXCEPT !.nodes[n].relativeGroupTransform = r]
             IN  IF f # {} THEN updateColorBlendVisibility(m, n, Et, f) ELSE m

\* updateTransformAndChildren (rt) up to its children: skip a container
\* already seen in this pass; else recompute its transforms and colours.
updateTransformOf(w, n, e, t) ==
    LET v == visited([w EXCEPT !.nodes[n].updateTick = e,
                               !.nodes[n].didChange = FALSE], n)
        s == w.nodes[n].parent
        r == w.nodes[n].localTransform
    IN  IF s # 0 /\ ~IsGroupRoot(s)
        THEN LET f == t \cup w.nodes[n].updateFlags
                 m == [v EXCEPT !.nodes[n].relativeGroupTransform =
                          appendFrom(r, w.nodes[s].relativeGroupTransform)]
             IN  IF f # {} THEN updateColorBlendVisibility(m, n, m.nodes[s], f) ELSE m
        ELSE LET f == w.nodes[n].updateFlags
                 m == [v EXCEPT !.nodes[n].relativeGroupTransform = r]
             IN  IF f # {} THEN updateColorBlendVisibility(m, n, Et, f) ELSE m

\* rt that hands no flags down to the children.
updateFlagsBelow_none(w, n, t) == {}

\* The flags rt hands down to the children of n.
updateFlagsBelow(w, n, t) ==
    LET s == w.nodes[n].parent
    IN  IF s # 0 /\ ~IsGroupRoot(s) THEN t \cup w.nodes[n].updateFlags
        ELSE w.nodes[n].updateFlags

\* container.children, from child number c on.
RECURSIVE childrenFrom(_, _, _)
childrenFrom(w, n, c) ==
    IF c > 4 THEN <<>>
    ELSE (IF w.nodes[c].parent = n THEN <<c>> ELSE <<>>) \o childrenFrom(w, n, c + 1)

\* updateTransformAndChildren (rt)
RECURSIVE updateTransformAndChildren(_, _, _, _)
RECURSIVE updateChildren(_, _, _, _)
updateChildren(w, cs, e, t) ==
    IF cs = <<>> THEN w
    ELSE updateChildren(updateTransformAndChildren(w, Head(cs), e, t), Tail(cs), e, t)

\* rt that goes on into the children of the root of a nested render group.
updateTransformAndChildren_descending(w, n, e, t) ==
    IF e = w.nodes[n].updateTick THEN w
    ELSE LET v == updateTransformOf(w, n, e, t)
             f == updateFlagsBelow(w, n, t)
             c == updateChildren(v, childrenFrom(v, n, 1), e, f)
             l == w.nodes[n].parentRenderGroup
         IN  IF n = Sprite /\ ~c.groups[l].structureDidChange
             THEN requested(c, n)
             ELSE c

updateTransformAndChildren(w, n, e, t) ==
    IF e = w.nodes[n].updateTick THEN w
    ELSE LET v == updateTransformOf(w, n, e, t)
             f == updateFlagsBelow(w, n, t)
         IN  IF IsGroupRoot(n) THEN v
             ELSE LET c == updateChildren(v, childrenFrom(v, n, 1), e, f)
                      l == w.nodes[n].parentRenderGroup
                  IN  IF n = Sprite /\ ~c.groups[l].structureDidChange
                      THEN requested(c, n)
                      ELSE c

\* updateRenderGroupTransforms (Be), one bucket: the entries below its
\* index that still belong to the group at this depth; then
\* clearList(list, index) and index = 0.
RECURSIVE updateBucket(_, _, _, _, _)
\* The walk of a bucket that leaves its index where it was.
updateBucket_indexKept(w, g, d, r, i) ==
    LET b == w.groups[g].childrenToUpdate[d]
    IN  IF i >= b.index
        THEN [w EXCEPT !.groups[g].childrenToUpdate[d] =
                 [list |-> clearList(b.list, b.index), index |-> b.index]]
        ELSE LET h == b.list[i + 1]
                 v == IF /\ w.nodes[h].parentRenderGroup = g
                         /\ w.nodes[h].relativeRenderGroupDepth = d
                      THEN updateTransformAndChildren(w, h, r, {})
                      ELSE w
             IN  updateBucket(v, g, d, r, i + 1)

updateBucket(w, g, d, r, i) ==
    LET b == w.groups[g].childrenToUpdate[d]
    IN  IF i >= b.index
        THEN [w EXCEPT !.groups[g].childrenToUpdate[d] =
                 [list |-> clearList(b.list, b.index), index |-> 0]]
        ELSE LET h == b.list[i + 1]
                 v == IF /\ w.nodes[h].parentRenderGroup = g
                         /\ w.nodes[h].relativeRenderGroupDepth = d
                      THEN updateTransformAndChildren(w, h, r, {})
                      ELSE w
             IN  updateBucket(v, g, d, r, i + 1)

\* updateRenderGroupTransforms (Be), the buckets from depth d on, in the
\* ascending order of for-in over integer keys.
RECURSIVE updateBuckets(_, _, _, _)
updateBuckets(w, g, d, r) ==
    IF d > 3 THEN w
    ELSE updateBuckets(updateBucket(w, g, d, r, 0), g, d + 1, r)

\* The entries the buckets of a group hold below their indices, each
\* <<depth, container>>, from depth d on.
RECURSIVE Registered(_, _, _)
Registered(w, g, d) ==
    IF d > 3 THEN <<>>
    ELSE LET b == w.groups[g].childrenToUpdate[d]
         IN  [i \in 1..b.index |-> <<d, b.list[i]>>] \o Registered(w, g, d + 1)

\* Be that leaves the tick of the group where it was.
updateRenderGroupTransforms_tickKept(w, g) ==
    LET u == updateRenderGroupTransform(w, g)
        r == u.groups[g].updateTick
        s == [u EXCEPT !.passes = Append(@, [group |-> g,
                                             registered |-> Registered(w, g, 1),
                                             visited |-> <<>>,
                                             updates |-> <<>>])]
    IN  updateBuckets(s, g, 1, r)

\* updateRenderGroupTransforms (Be) of one group.
updateRenderGroupTransforms(w, g) ==
    LET u == updateRenderGroupTransform(w, g)
        r == u.groups[g].updateTick
        s == [u EXCEPT !.groups[g].updateTick = r + 1,
                       !.passes = Append(@, [group |-> g,
                                             registered |-> Registered(w, g, 1),
                                             visited |-> <<>>,
                                             updates |-> <<>>])]
    IN  updateBuckets(s, g, 1, r)

\* _updateRenderGroups as far as this state goes: the transforms of the
\* group, the instructions built or updated (structureDidChange cleared),
\* then the child groups attached under it.
RECURSIVE TF_updateRenderGroups(_, _)
TF_updateRenderGroups(w, g) ==
    LET v == [updateRenderGroupTransforms(w, g) EXCEPT !.groups[g].structureDidChange = FALSE]
    IN  IF g = 1 THEN TF_updateRenderGroups(v, 3) ELSE v

(***************************************************************************)
(* BatcherPipe (Ue)                                                        *)
(*                                                                         *)
(* _batchersByInstructionSet maps the uid of an instruction set to its     *)
(* batchers by name; a batcher is its instance number (0: none yet) and    *)
(* the elements added since it last broke.  _activeBatches is the map of   *)
(* the instruction set being built, _activeBatch the name of the batcher   *)
(* in use.  out is the batches the build in progress, or else the last     *)
(* build, has added to its instruction set, in order.                      *)
(***************************************************************************)
InstructionSets == 1..NumInstructionSets
BatcherNames == {"default", "custom"}

NoBatcher == [id |-> 0, elements |-> <<>>]

BP_Init ==
    [batchersByInstructionSet |->
         [u \in InstructionSets |-> [b \in BatcherNames |-> NoBatcher]],
     activeBatches |-> 0,
     activeBatch |-> "default",
     out |-> <<>>,
     made |-> 0,
     building |-> FALSE,
     keys |-> <<>>,
     broken |-> FALSE]

\* Batcher.begin(): the batcher holds no element.
Batcher_begin(b) == [b EXCEPT !.elements = <<>>]

\* Batcher.add(e)
Batcher_add(b, e) == [b EXCEPT !.elements = Append(@, e)]

\* new Batcher / BatcherPipe.getBatcher(name): the next instance.
Batcher_new(p) == [id |-> p.made + 1, elements |-> <<>>]

\* Batcher.break(instructionSet) of the batcher called name: the elements
\* added since the last break, if any, leave as one batch of the
\* instruction set (they share a blend mode and fit the texture slots).
Batcher_break(p, name) ==
    LET u == p.activeBatches
        b == p.batchersByInstructionSet[u][name]
    IN  IF b.elements = <<>> THEN p
        ELSE [p EXCEPT
                 !.out = Append(@, [name |-> name, batcher |-> b.id,
                                       items |-> b.elements]),
                 !.batchersByInstructionSet[u][name].elements = <<>>]

\* buildStart(e), after the reset of the instruction set by
\* _buildInstructions: the batchers of the set, with a default batcher made
\* on first use, all begun; the default one is active.
BP_buildStart(p, u) ==
    LET t == p.batchersByInstructionSet[u]
        fresh == t["default"].id = 0
        d == IF fresh THEN [t EXCEPT !["default"] = Batcher_new(p)] ELSE t
    IN  [p EXCEPT
            !.batchersByInstructionSet[u] =
                [b \in BatcherNames |->
                    IF d[b].id # 0 THEN Batcher_begin(d[b]) ELSE d[b]],
            !.made = IF fresh THEN @ + 1 ELSE @,
            !.activeBatches = u,
            !.activeBatch = "default",
            !.out = <<>>,
            !.building = TRUE,
            !.keys = <<>>,
            !.broken = FALSE]

\* addToBatch that changes batcher without breaking the active one.
BP_switch_unbroken(p, name) ==
    IF p.activeBatch = name THEN p
    ELSE LET k == p
             u == k.activeBatches
             fresh == k.batchersByInstructionSet[u][name].id = 0
         IN  [k EXCEPT
                 !.batchersByInstructionSet[u][name] =
                     IF fresh THEN Batcher_begin(Batcher_new(k)) ELSE @,
                 !.made = IF fresh THEN @ + 1 ELSE @,
                 !.activeBatch = name]

\* addToBatch(e, t) up to the add: when the batcher of e is not the active
\* one, break the active one and make the batcher of e, begun on first
\* use, the active one.
BP_switch(p, name) ==
    IF p.activeBatch = name THEN p
    ELSE LET k == Batcher_break(p, p.activeBatch)
             u == k.activeBatches
             fresh == k.batchersByInstructionSet[u][name].id = 0
         IN  [k EXCEPT
                 !.batchersByInstructionSet[u][name] =
                     IF fresh THEN Batcher_begin(Batcher_new(k)) ELSE @,
                 !.made = IF fresh THEN @ + 1 ELSE @,
                 !.activeBatch = name]

\* addToBatch(e, t)
BP_addToBatch(p, e, name) ==
    LET k == BP_switch(p, name)
    IN  [k EXCEPT
            !.batchersByInstructionSet[k.activeBatches][name] = Batcher_add(@, e),
            !.keys = Append(@, name)]

\* break(e): the break a mask, a filter or a render group asks for.
BP_break(p) == [Batcher_break(p, p.activeBatch) EXCEPT !.broken = TRUE]

\* buildEnd(e)
BP_buildEnd(p) == [Batcher_break(p, p.activeBatch) EXCEPT !.building = FALSE]

(***************************************************************************)
(* SchedulerSystem (se) and RenderableGCSystem (He)                        *)
(*                                                                         *)
(* A task of the scheduler is its id and what it calls; when a task is due *)
(* is left to the step that updates the scheduler.  Times are whole units  *)
(* of one clock; _now is the time of the last prerender.  A renderable     *)
(* has a render group (0: none), and group 2 is nested in group 1.         *)
(***************************************************************************)
GcGroups == 1..3
GcRoots == {1, 3}
Renderables == 1..3

\* renderGroupChildren, and the groups _updateInstructionGCTick goes through
GcChildren(g) == IF g = 1 THEN {2} ELSE {}
GcTree(g) == {g} \cup GcChildren(g)

GC_Init ==
    [tasks |-> <<>>, uid |-> 1,
     handler |-> 0, hashHandler |-> 0, arrayHandler |-> 0,
     managedRenderables |-> <<>>, now |-> 0, clock |-> 0, tick |-> 0,
     destroyed |-> FALSE,
     groups |-> [g \in GcGroups |->
                    [gcTick |-> 0, instructionSetTick |-> 0,
                     structureDidChange |-> TRUE]],
     renderables |-> [r \in Renderables |->
                    [renderGroup |-> r, lastUsed |-> -1, subscribed |-> FALSE,
                     destroyed |-> FALSE, gpu |-> FALSE,
                     skipped |-> FALSE]],
     frames |-> 0, rendered |-> {},
     wanted |-> FALSE, wasOff |-> FALSE, before |-> <<>>, cancelled |-> 0,
     invoked |-> <<>>, due |-> {}, swept |-> {}]

\* se.repeat(func, duration, useOffset): a new task with the next id.
Sched_repeat(p, func) ==
    [p EXCEPT !.tasks = Append(@, [id |-> p.uid, func |-> func]),
              !.uid = @ + 1]

\* The tasks without the one at position i (splice(i, 1)).
Spliced(s, i) == SubSeq(s, 1, i - 1) \o SubSeq(s, i + 1, Len(s))

\* se.cancel(id): the first task of that id leaves the list.
Sched_cancel(p, id) ==
    LET found == {i \in DOMAIN p.tasks : p.tasks[i].id = id}
    IN  IF found = {} THEN p
        ELSE LET i == CHOOSE j \in found : \A k \in found : j <= k
             IN  [p EXCEPT !.tasks = Spliced(@, i)]

\* get enabled(): !!this._handler
GC_enabled(p) == p.handler # 0

\* The setter cancelling the sweep task only.
GC_setEnabled_sweepOnly(p, e) ==
    IF GC_enabled(p) = e THEN p
    ELSE IF e
         THEN LET a == Sched_repeat(p, "run")
                  b == Sched_repeat(a, "hashes")
                  c == Sched_repeat(b, "arrays")
              IN  [c EXCEPT !.handler = p.uid, !.hashHandler = a.uid,
                            !.arrayHandler = b.uid]
         ELSE Sched_cancel(p, p.handler)

\* set enabled(e)
GC_setEnabled(p, e) ==
    IF GC_enabled(p) = e THEN p
    ELSE IF e
         THEN LET a == Sched_repeat(p, "run")
                  b == Sched_repeat(a, "hashes")
                  c == Sched_repeat(b, "arrays")
              IN  [c EXCEPT !.handler = p.uid, !.hashHandler = a.uid,
                            !.arrayHandler = b.uid]
         ELSE Sched_cancel(Sched_cancel(Sched_cancel(p, p.handler),
                                        p.hashHandler), p.arrayHandler)

\* destroy()
GC_destroy(p) ==
    [GC_setEnabled(p, FALSE) EXCEPT !.destroyed = TRUE,
                                    !.managedRenderables = <<>>]

\* prerender({container}): the time of the frame, the next tick on the
\* render group of the container, and that tick on the instruction sets
\* of the group and of the groups nested in it.
GC_prerender(p, root) ==
    [p EXCEPT !.now = p.clock,
              !.tick = @ + 1,
              !.groups = [g \in GcGroups |->
                  [@[g] EXCEPT
                      !.gcTick = IF g = root THEN p.tick ELSE @,
                      !.instructionSetTick = IF g \in GcTree(root) THEN p.tick ELSE @]]]

\* addRenderable(e)
GC_addRenderable(p, e) ==
    IF ~GC_enabled(p) THEN p
    ELSE LET q == IF p.renderables[e].lastUsed = -1
                  THEN [p EXCEPT !.managedRenderables = Append(@, e),
                                 !.renderables[e].subscribed = TRUE]
                  ELSE p
         IN  [q EXCEPT !.renderables[e].lastUsed = p.now]

\* _removeRenderable(e), the listener of the 'destroyed' event
GC_removeRenderable(p, e) ==
    LET found == {i \in DOMAIN p.managedRenderables : p.managedRenderables[i] = e}
    IN  IF found = {} THEN p
        ELSE LET i == CHOOSE j \in found : \A k \in found : j <= k
             IN  [p EXCEPT !.managedRenderables[i] = 0,
                           !.renderables[e].subscribed = FALSE]

\* The tick of the render group of a renderable and the tick of its
\* instruction set, as run reads them.
GroupTick(p, a) ==
    LET l == p.renderables[a].renderGroup
    IN  IF l = 0 THEN 0 ELSE p.groups[l].gcTick

InstructionTick(p, a) ==
    LET l == p.renderables[a].renderGroup
    IN  IF l = 0 THEN -1 ELSE p.groups[l].instructionSetTick

\* run(), from entry i of the list on; kept is the entries that stay.
RECURSIVE GC_runFrom(_, _, _)
\* run() that keeps the entries set to null.
GC_runFrom_nullsKept(p, i, kept) ==
    IF i > Len(p.managedRenderables)
    THEN [p EXCEPT !.managedRenderables = kept]
    ELSE LET a == p.managedRenderables[i]
         IN  IF a = 0 THEN GC_runFrom(p, i + 1, Append(kept, 0))
             ELSE LET l == p.renderables[a].renderGroup
                      used == IF GroupTick(p, a) = InstructionTick(p, a)
                              THEN p.now ELSE p.renderables[a].lastUsed
                  IN  IF p.now - used > MaxUnusedTime
                      THEN LET d == ~p.renderables[a].destroyed
                               q == [p EXCEPT
                                       !.renderables[a].lastUsed = -1,
                                       !.renderables[a].subscribed = FALSE,
                                       !.renderables[a].gpu = IF d THEN FALSE ELSE @,
                                       !.swept = IF d THEN @ \cup {a} ELSE @]
                           IN  GC_runFrom(
                                   IF d /\ l # 0
                                   THEN [q EXCEPT !.groups[l].structureDidChange = TRUE]
                                   ELSE q, i + 1, kept)
                      ELSE GC_runFrom([p EXCEPT !.renderables[a].lastUsed = used],
                                      i + 1, Append(kept, a))

GC_runFrom(p, i, kept) ==
    IF i > Len(p.managedRenderables)
    THEN [p EXCEPT !.managedRenderables = kept]
    ELSE LET a == p.managedRenderables[i]
         IN  IF a = 0 THEN GC_runFrom(p, i + 1, kept)
             ELSE LET l == p.renderables[a].renderGroup
                      used == IF GroupTick(p, a) = InstructionTick(p, a)
                              THEN p.now ELSE p.renderables[a].lastUsed
                  IN  IF p.now - used > MaxUnusedTime
                      THEN LET d == ~p.renderables[a].destroyed
                               q == [p EXCEPT
                                       !.renderables[a].lastUsed = -1,
                                       !.renderables[a].subscribed = FALSE,
                                       !.renderables[a].gpu = IF d THEN FALSE ELSE @,
                                       !.swept = IF d THEN @ \cup {a} ELSE @]
                           IN  GC_runFrom(
                                   IF d /\ l # 0
                                   THEN [q EXCEPT !.groups[l].structureDidChange = TRUE]
                                   ELSE q, i + 1, kept)
                      ELSE GC_runFrom([p EXCEPT !.renderables[a].lastUsed = used],
                                      i + 1, Append(kept, a))

\* The tracked renderables idle for longer than maxUnusedTime whose render
\* group, if they have one, is not in the frame last rendered.
IdleAndUnrendered(p) ==
    {a \in Renderables :
        /\ \E i \in DOMAIN p.managedRenderables : p.managedRenderables[i] = a
        /\ p.now - p.renderables[a].lastUsed > MaxUnusedTime
        /\ p.renderables[a].renderGroup \notin p.rendered}

\* run()
GC_run(p) ==
    GC_runFrom([p EXCEPT !.due = IdleAndUnrendered(p), !.swept = {}], 1, <<>>)

\* The building of the instruction sets of a frame: a group whose structure
\* changed is collected again, and the pipe of a renderable without GPU
\* data makes the data and hands the renderable to addRenderable.
RECURSIVE GC_collect(_, _)
GC_collect(p, rs) ==
    IF rs = {} THEN p
    ELSE LET r == CHOOSE x \in rs : \A y \in rs : x <= y
             q == IF p.renderables[r].gpu THEN p
                  ELSE [GC_addRenderable(p, r) EXCEPT !.renderables[r].gpu = TRUE]
         IN  GC_collect(q, rs \ {r})

\* renderer.render({container}): prerender, then the render of the tree.
GC_render(p, root) ==
    LET a == GC_prerender(p, root)
        built == {g \in GcTree(root) : a.groups[g].structureDidChange}
        b == GC_collect(a, {r \in Renderables : a.renderables[r].renderGroup \in built})
    IN  [b EXCEPT
            !.groups = [g \in GcGroups |->
                [@[g] EXCEPT !.structureDidChange = IF g \in built THEN FALSE ELSE @]],
            !.frames = @ + 1,
            !.rendered = GcTree(root),
            !.renderables = [r \in Renderables |->
                [@[r] EXCEPT !.skipped =
                    @ \/ b.renderables[r].renderGroup \notin GcTree(root)]]]

\* se._update(): the tasks due, in the order of the list, are called.
RECURSIVE Sched_updateFrom(_, _, _)
Sched_updateFrom(p, i, isDue) ==
    IF i > Len(p.tasks) THEN p
    ELSE LET r == p.tasks[i]
             q == IF r.id \notin isDue THEN p
                  ELSE LET c == [p EXCEPT !.invoked = Append(@, r.func)]
                       IN  IF r.func = "run" THEN GC_run(c) ELSE c
         IN  Sched_updateFrom(q, i + 1, isDue)

Sched_update(p, isDue) == Sched_updateFrom([p EXCEPT !.invoked = <<>>], 1, isDue)

(***************************************************************************)
(* TextureGCSystem (ze)                                                    *)
(*                                                                         *)
(* Of the three managed textures the second has autoGarbageCollect off     *)
(* and the third has no resource.                                          *)
(***************************************************************************)
ManagedTextures == 1..3

RECURSIVE TG_runFrom(_, _)
TG_Init ==
    [count |-> 0, checkCount |-> 0, active |-> TRUE, alwaysActive |-> TRUE,
     renderingToScreen |-> FALSE, ran |-> FALSE, runs |-> 0,
     screenFrames |-> 0,
     managedTextures |-> <<1, 2, 3>>,
     textures |-> [x \in ManagedTextures |->
                     [autoGarbageCollect |-> x # 2, resource |-> x # 3,
                      touched |-> -1, gpu |-> FALSE, unloads |-> 0]],
     eligible |-> {}, unloaded |-> {}]

\* The managed textures a sweep is to unload.
Eligible(g) ==
    {x \in ManagedTextures :
        /\ g.textures[x].autoGarbageCollect
        /\ g.textures[x].resource
        /\ g.textures[x].touched > -1
        /\ g.count - g.textures[x].touched > MaxIdle}

\* TextureSource.unload(): the GPU texture of the source, if there is
\* one, is released; the source stays.
Texture_unload(x) == [x EXCEPT !.gpu = FALSE, !.unloads = @ + 1]

\* The sweep that unloads a texture and leaves its stamp.
TG_runFrom_stampKept(g, i) ==
    IF i > Len(g.managedTextures) THEN g
    ELSE LET r == g.managedTextures[i]
             x == g.textures[r]
         IN  IF /\ x.autoGarbageCollect
                /\ x.resource
                /\ x.touched > -1
                /\ g.count - x.touched > MaxIdle
             THEN TG_runFrom([g EXCEPT !.textures[r] = Texture_unload(x),
                                       !.unloaded = @ \cup {r}], i + 1)
             ELSE TG_runFrom(g, i + 1)

\* run(), from entry i of managedTextures on
TG_runFrom(g, i) ==
    IF i > Len(g.managedTextures) THEN g
    ELSE LET r == g.managedTextures[i]
             x == g.textures[r]
         IN  IF /\ x.autoGarbageCollect
                /\ x.resource
                /\ x.touched > -1
                /\ g.count - x.touched > MaxIdle
             THEN TG_runFrom([g EXCEPT
                                !.textures[r] = Texture_unload([x EXCEPT !.touched = -1]),
                                !.unloaded = @ \cup {r}], i + 1)
             ELSE TG_runFrom(g, i + 1)

\* run()
TG_run(g) ==
    TG_runFrom([g EXCEPT !.eligible = Eligible(g), !.unloaded = {}], 1)

\* A texture is bound for drawing: the texture system stamps it with the
\* frame count and makes its GPU texture when it has none.
TG_touch(g, x) ==
    [g EXCEPT !.textures[x].touched = g.count,
              !.textures[x].gpu = TRUE,
              !.textures[x].unloads = 0]

\* postrender()
TG_postrender(g) ==
    IF ~g.renderingToScreen THEN [g EXCEPT !.ran = FALSE]
    ELSE LET c == [g EXCEPT !.count = @ + 1, !.ran = FALSE]
         IN  IF ~c.active THEN c
             ELSE IF c.checkCount + 1 > CheckCountMax
                  THEN TG_run([c EXCEPT !.checkCount = 0, !.ran = TRUE, !.runs = @ + 1])
                  ELSE [c EXCEPT !.checkCount = @ + 1]

\* A frame: renderStart sets renderingToScreen from the root render
\* target, postrender follows the render.
TG_render(g, toScreen) ==
    [TG_postrender([g EXCEPT !.renderingToScreen = toScreen])
        EXCEPT !.screenFrames = IF toScreen THEN @ + 1 ELSE @]

\* textureGC.active = b
TG_setActive(g, b) ==
    [g EXCEPT !.active = b, !.alwaysActive = @ /\ b, !.ran = FALSE]

(***************************************************************************)
(* RenderTargetSystem (Mt): the caches of render targets                   *)
(*                                                                         *)
(* A surface is a texture over a source, or the canvas element of the      *)
(* first source.  _renderSurfaceToRenderTargetHash maps a key (a source,   *)
(* or 0 for the canvas) to the number of a render target, 0 for none;            *)
(* _gpuRenderTargetHash maps a render target to "none", "made" or "null".  *)
(* made lists the render targets in the order they were made.              *)
(***************************************************************************)
Canvas == [isTexture |-> FALSE, canvas |-> TRUE, source |-> 1]
Surfaces == Textures \cup {Canvas}
CanvasKey == 0
CacheKeys == Sources \cup {CanvasKey}
TargetIds == 1..MaxTargets

RTC_Init ==
    [renderSurfaceToRenderTargetHash |-> [k \in CacheKeys |-> 0],
     gpuRenderTargetHash |-> [i \in TargetIds |-> "none"],
     made |-> <<>>,
     listeners |-> [s \in Sources |-> <<>>],
     sourceDestroyed |-> [s \in Sources |-> FALSE],
     returned |-> 0]

\* _initRenderTarget(e): a canvas is replaced by the source of its
\* texture; a new render target over the source, a listener for the
\* destroy of the source, and the target stored under the source.
RTC_initRenderTarget(c, e) ==
    LET s == e
        i == Len(c.made) + 1
    IN  [c EXCEPT
            !.made = Append(@, [source |-> s, destroys |-> 0,
                                gpuMade |-> 0, gpuDestroys |-> 0]),
            !.listeners[s] = Append(@, i),
            !.renderSurfaceToRenderTargetHash[s] = i,
            !.returned = i]

\* getRenderTarget(e): e.isTexture && (e = e.source); the target stored
\* under e, or else _initRenderTarget(e).
RTC_getRenderTarget(c, e) ==
    LET k == IF e.isTexture THEN e.source ELSE CanvasKey
        h == c.renderSurfaceToRenderTargetHash[k]
    IN  IF h # 0 THEN [c EXCEPT !.returned = h]
        ELSE RTC_initRenderTarget(c, e.source)

\* getGpuRenderTarget(e)
RTC_getGpuRenderTarget(c, i) ==
    IF c.gpuRenderTargetHash[i] = "made" THEN c
    ELSE [c EXCEPT !.gpuRenderTargetHash[i] = "made",
                   !.made[i].gpuMade = @ + 1]

\* The listener of the destroy of source s registered for target i.
RTC_onDestroy(c, s, i) ==
    LET d == [c EXCEPT !.made[i].destroys = @ + 1,
                       !.renderSurfaceToRenderTargetHash[s] = 0]
    IN  IF d.gpuRenderTargetHash[i] = "made"
        THEN [d EXCEPT !.gpuRenderTargetHash[i] = "null",
                       !.made[i].gpuDestroys = @ + 1]
        ELSE d

\* source.destroy(): the listeners of its destroy event run once, in the
\* order they were added.
RECURSIVE RTC_emitDestroy(_, _, _)
RTC_emitDestroy(c, s, ls) ==
    IF ls = <<>> THEN [c EXCEPT !.listeners[s] = <<>>, !.sourceDestroyed[s] = TRUE]
    ELSE RTC_emitDestroy(RTC_onDestroy(c, s, Head(ls)), s, Tail(ls))

(***************************************************************************)
(* AbstractRenderer (Ze): systems and runners                              *)
(*                                                                         *)
(* A system is the number of the instance made for it, its class the       *)
(* entry of that number in instances.  A class has a method for some of    *)
(* the runners; a runner keeps the instances it calls, in order.           *)
(***************************************************************************)
SystemNames == {"textureGC", "renderTarget"}
SystemClasses == {"ze", "Mt"}
RunnerNames == {"init", "renderStart", "postrender"}

\* The runners a class has a method for.
Methods(cls) ==
    IF cls = "ze" THEN {"init", "postrender"} ELSE {"renderStart", "postrender"}

REG_Init ==
    [systems |-> [r \in SystemNames |-> 0],
     systemsHash |-> [r \in SystemNames |-> 0],
     runners |-> [i \in RunnerNames |-> <<>>],
     instances |-> <<>>,
     phase |-> "constructed",
     thrown |-> FALSE,
     emitted |-> <<>>,
     asked |-> "textureGC",
     before |-> [systems |-> [r \in SystemNames |-> 0],
                 runners |-> [i \in RunnerNames |-> <<>>],
                 thrown |-> FALSE, phase |-> "constructed"]]

\* Runner.remove(e)
Runner_remove(items, e) == SelectSeq(items, LAMBDA x : x # e)

\* Runner.add(e): an item with a method of the runner's name goes to the end.
Runner_add(items, name, e, cls) ==
    IF name \in Methods(cls) THEN Append(Runner_remove(items, e), e) ELSE items

\* _addSystem that lists the instance in the runners before it looks at
\* the name.
REG_addSystem_listedFirst(g, cls, r) ==
    LET s == Len(g.instances) + 1
        m == [g EXCEPT !.instances = Append(@, cls),
                       !.runners = [i \in RunnerNames |-> Runner_add(@[i], i, s, cls)]]
    IN  IF g.systems[r] # 0
        THEN [m EXCEPT !.thrown = TRUE, !.phase = "failed"]
        ELSE [m EXCEPT !.systems[r] = s, !.systemsHash[r] = s]

\* _addSystem(t, r): the instance is made; a name in use throws, and the
\* throw ends init; else the instance is stored and added to the runners.
REG_addSystem(g, cls, r) ==
    LET s == Len(g.instances) + 1
        m == [g EXCEPT !.instances = Append(@, cls)]
    IN  IF g.systems[r] # 0
        THEN [m EXCEPT !.thrown = TRUE, !.phase = "failed"]
        ELSE [m EXCEPT !.systems[r] = s,
                       !.systemsHash[r] = s,
                       !.runners = [i \in RunnerNames |-> Runner_add(@[i], i, s, cls)]]

\* render(t, r): the runners of a frame call the instances they hold.
REG_render(g) ==
    [g EXCEPT !.emitted = g.runners["renderStart"] \o g.runners["postrender"]]

\* What an operation on the renderer starts from.
REG_noted(g) ==
    [g EXCEPT !.before = [systems |-> g.systems, runners |-> g.runners,
                          thrown |-> g.thrown, phase |-> g.phase],
              !.emitted = <<>>]

(***************************************************************************)
(* RenderGroupSystem.render ($) and the container it renders               *)
(*                                                                         *)
(* The container has a parent or none (0), its render group a parent       *)
(* group or none (0); scratch is the matrix It that render keeps the       *)
(* local transform in.  during is what the render itself saw.              *)
(***************************************************************************)
NoTransform == <<>>
Translations == {<<1, 0>>, <<1, -1>>}

RC_Init ==
    [parent |-> 0, renderGroupParent |-> 0, localTransform |-> Identity,
     scratch |-> Identity,
     during |-> [parent |-> 0, renderGroupParent |-> 0, localTransform |-> Identity,
                 worldTransformMatrix |-> Identity],
     before |-> [parent |-> 0, renderGroupParent |-> 0, localTransform |-> Identity]]

\* render without the restoring of the parent.
RC_render_parentLost(c, t) ==
    LET a == [c EXCEPT !.parent = 0, !.renderGroupParent = 0]
        b == IF t # NoTransform
             THEN [a EXCEPT !.scratch = a.localTransform, !.localTransform = t]
             ELSE a
        m == [b EXCEPT !.during =
                 [parent |-> b.parent, renderGroupParent |-> b.renderGroupParent,
                  localTransform |-> b.localTransform,
                  worldTransformMatrix |-> b.localTransform]]
        e == IF t # NoTransform THEN [m EXCEPT !.localTransform = m.scratch] ELSE m
    IN  [e EXCEPT !.renderGroupParent = c.renderGroupParent]

\* render({container, transform}): parent and renderGroupParent are taken
\* off, the local transform is kept in the scratch matrix and replaced by
\* the transform given; the groups are updated and executed; then all
\* three are put back.
RC_render(c, t) ==
    LET a == [c EXCEPT !.parent = 0, !.renderGroupParent = 0]
        b == IF t # NoTransform
             THEN [a EXCEPT !.scratch = a.localTransform, !.localTransform = t]
             ELSE a
        m == [b EXCEPT !.during =
                 [parent |-> b.parent, renderGroupParent |-> b.renderGroupParent,
                  localTransform |-> b.localTransform,
                  worldTransformMatrix |-> b.localTransform]]
        e == IF t # NoTransform THEN [m EXCEPT !.localTransform = m.scratch] ELSE m
    IN  [e EXCEPT !.parent = c.parent, !.renderGroupParent = c.renderGroupParent]

\* renderer.render(options): without a transform the local transform of
\* the container is the transform.
RC_rendererRender(c, t) ==
    RC_render(c, IF t = NoTransform THEN c.localTransform ELSE t)

\* generateTexture(options): a render with the translation that moves the
\* frame to the origin.
RC_generateTexture(c, u) == RC_rendererRender(c, u)

\* What a call starts from.
RC_noted(c) ==
    [c EXCEPT !.before = [parent |-> c.parent,
                          renderGroupParent |-> c.renderGroupParent,
                          localTransform |-> c.localTransform]]

(***************************************************************************)
(* Render groups cached as texture ($._updateCachedRenderGroups)           *)
(*                                                                         *)
(* Group 2 is the child of group 1.  A pooled texture is a number; the     *)
(* pool knows the size each was made for (0: not made yet) and which are   *)
(* free.  size is the local bounds of the content of a group.              *)
(***************************************************************************)
CachedGroups == 1..2
Sizes == 1..NumSizes
\* The pool makes textures as they are needed: never more than one for
\* each group and size.
PoolTextures == 1..(Cardinality(CachedGroups) * NumSizes)

CG_children(g) == IF g = 1 THEN <<2>> ELSE <<>>
CG_parent(g) == IF g = 2 THEN 1 ELSE 0

CG_Init ==
    [groups |-> [g \in CachedGroups |->
                    [isCachedAsTexture |-> FALSE, textureNeedsUpdate |-> TRUE,
                     texture |-> 0, size |-> 1, textureBounds |-> 0,
                     structureDidChange |-> FALSE]],
     sizeOf |-> [x \in PoolTextures |-> 0],
     free |-> {},
     visited |-> {}, returnedFree |-> FALSE, heldAtGet |-> FALSE,
     madeForSameSize |-> FALSE]

\* TexturePool.returnTexture(texture, true)
Pool_returnTexture(c, x) ==
    [c EXCEPT !.free = @ \cup {x},
              !.returnedFree = @ \/ x \in c.free]

\* The texture TexturePool.getOptimalTexture(w, h, res, aa) gives: a free
\* one of that size, or else one made now.
Pool_optimalTexture(c, size) ==
    LET fit == {x \in c.free : c.sizeOf[x] = size}
    IN  IF fit # {} THEN Min(fit)
        ELSE Min({x \in PoolTextures : c.sizeOf[x] = 0})

\* The update of a cached group that gets the new texture before it
\* returns the old one.
CG_updateTexture_getFirst(c, e) ==
    LET s == c.groups[e].texture
        d == Pool_optimalTexture(c, c.groups[e].size)
        k == [c EXCEPT
                !.heldAtGet = @ \/ s # 0,
                !.madeForSameSize = @ \/ (c.sizeOf[d] = 0 /\ s # 0
                                          /\ c.groups[e].textureBounds = c.groups[e].size),
                !.sizeOf[d] = c.groups[e].size,
                !.free = @ \ {d},
                !.groups[e].texture = d,
                !.groups[e].textureBounds = c.groups[e].size]
        r == IF s # 0 THEN Pool_returnTexture(k, s) ELSE k
    IN  IF s # d /\ CG_parent(e) # 0
        THEN [r EXCEPT !.groups[CG_parent(e)].structureDidChange = TRUE]
        ELSE r

\* The update of the texture of a cached group: the old texture goes back
\* to the pool, a texture of the size of the bounds is taken, and a parent
\* group is rebuilt when the texture is another one.
CG_updateTexture(c, e) ==
    LET s == c.groups[e].texture
        r == IF s # 0 THEN Pool_returnTexture(c, s) ELSE c
        d == Pool_optimalTexture(r, r.groups[e].size)
        k == [r EXCEPT
                !.heldAtGet = @ \/ (s # 0 /\ s \notin r.free),
                !.madeForSameSize = @ \/ (r.sizeOf[d] = 0 /\ s # 0
                                          /\ r.groups[e].textureBounds = r.groups[e].size),
                !.sizeOf[d] = r.groups[e].size,
                !.free = @ \ {d},
                !.groups[e].texture = d,
                !.groups[e].textureBounds = r.groups[e].size]
    IN  IF s # d /\ CG_parent(e) # 0
        THEN [k EXCEPT !.groups[CG_parent(e)].structureDidChange = TRUE]
        ELSE k

\* _updateCachedRenderGroups(e, t)
RECURSIVE CG_updateCachedRenderGroups(_, _)
RECURSIVE CG_updateCachedOf(_, _)
CG_updateCachedOf(c, gs) ==
    IF gs = <<>> THEN c
    ELSE CG_updateCachedOf(CG_updateCachedRenderGroups(c, gs[Len(gs)]),
                           SubSeq(gs, 1, Len(gs) - 1))

CG_updateCachedRenderGroups(c, e) ==
    LET v == [c EXCEPT !.visited = @ \cup {e}]
    IN  IF v.groups[e].isCachedAsTexture /\ ~v.groups[e].textureNeedsUpdate
        THEN v
        ELSE LET k == CG_updateCachedOf(v, CG_children(e))
             IN  IF k.groups[e].isCachedAsTexture
                 THEN IF k.groups[e].textureNeedsUpdate
                      THEN CG_updateTexture(k, e) ELSE k
                 ELSE IF k.groups[e].texture # 0
                      THEN [Pool_returnTexture(k, k.groups[e].texture)
                               EXCEPT !.groups[e].texture = 0]
                      ELSE k

\* The execution of the groups: j._executeCacheAsTexture renders a cached
\* group that needs it into its texture and clears textureNeedsUpdate;
\* the groups below a cached group that needs no update are not executed.
RECURSIVE CG_execute(_, _)
RECURSIVE CG_executeOf(_, _)
CG_executeOf(c, gs) ==
    IF gs = <<>> THEN c
    ELSE CG_executeOf(CG_execute(c, Head(gs)), Tail(gs))

CG_execute(c, e) ==
    IF c.groups[e].isCachedAsTexture
    THEN IF c.groups[e].textureNeedsUpdate
         THEN CG_executeOf([c EXCEPT !.groups[e].textureNeedsUpdate = FALSE],
                           CG_children(e))
         ELSE c
    ELSE CG_executeOf(c, CG_children(e))

\* render: _updateCachedRenderGroups(root, null), the building of the
\* groups to rebuild, the execution.
CG_render(c) ==
    LET u == CG_updateCachedRenderGroups([c EXCEPT !.visited = {}], 1)
        x == CG_execute(u, 1)
    IN  [x EXCEPT !.groups = [g \in CachedGroups |->
                                 [@[g] EXCEPT !.structureDidChange = FALSE]]]

\* enableCacheAsTexture(options)
CG_enable(c, g) ==
    [c EXCEPT !.groups[g].isCachedAsTexture = TRUE,
              !.groups[g].textureNeedsUpdate = TRUE]

\* updateCacheTexture(), after the content of the group changed to size s
CG_update(c, g, s) ==
    [c EXCEPT !.groups[g].size = s,
              !.groups[g].textureNeedsUpdate = TRUE]

\* disableCacheAsTexture(): caching is off; the texture goes back at once
\* (atOnce), or is left to the next _updateCachedRenderGroups.
CG_disable(c, g, atOnce) ==
    LET d == [c EXCEPT !.groups[g].isCachedAsTexture = FALSE]
    IN  IF atOnce /\ c.groups[g].texture # 0
        THEN [Pool_returnTexture(d, c.groups[g].texture)
                 EXCEPT !.groups[g].texture = 0]
        ELSE d

(***************************************************************************)
(* BlendModePipe (ee)                                                      *)
(*                                                                         *)
(* Z holds the advanced blend modes registered as extensions; registered   *)
(* is its set of names.  "overlay" and "color-burn" are advanced modes,    *)
(* "normal" and "add" are blend modes of the GPU state.                    *)
(***************************************************************************)
BlendModes == {"normal", "add", "overlay", "color-burn"}
AdvancedModes == {"overlay", "color-burn"}
BlendSubjects == {"none", "renderable", "renderGroup"}

BM_Init ==
    [activeBlendMode |-> "normal", isAdvanced |-> FALSE,
     blendModeStack |-> <<>>,
     registered |-> {},
     set |-> IS_Init,
     warnings |-> 0, sets |-> 0,
     asked |-> "normal", subject |-> "none", sizeBefore |-> 0]

\* prerender()
BM_prerender(b) ==
    [b EXCEPT !.activeBlendMode = "normal", !.isAdvanced = FALSE]

\* buildStart(), on a fresh instruction set
BM_buildStart(b) ==
    [b EXCEPT !.isAdvanced = FALSE, !.set = IS_Init, !.sets = 0]

\* _endAdvancedBlendMode(e)
BM_endAdvancedBlendMode(b) ==
    [b EXCEPT !.isAdvanced = FALSE,
              !.set = IS_add(Batch_break(@),
                             Instr("filter", "popFilter", FALSE, 0, FALSE))]

\* _beginAdvancedBlendMode(e, t): P(...) is the warning.
BM_beginAdvancedBlendMode(b) ==
    LET k == [b EXCEPT !.set = Batch_break(@)]
    IN  IF k.activeBlendMode \notin k.registered
        THEN [k EXCEPT !.warnings = 1]
        ELSE [k EXCEPT !.set = IS_add(@, Instr("filter", "pushFilter",
                                               FALSE, 0, FALSE))]

\* setBlendMode(e, t, r)
BM_setBlendMode(b, e, t) ==
    IF b.activeBlendMode = t THEN b
    ELSE LET x == IF b.isAdvanced THEN BM_endAdvancedBlendMode(b) ELSE b
             y == [x EXCEPT !.activeBlendMode = t]
         IN  IF e # "none"
             THEN LET z == [y EXCEPT !.isAdvanced = t \in y.registered]
                  IN  IF z.isAdvanced THEN BM_beginAdvancedBlendMode(z) ELSE z
             ELSE y

\* buildEnd(e)
BM_buildEnd(b) ==
    IF b.isAdvanced THEN BM_endAdvancedBlendMode(b) ELSE b

\* The number of characters of the name of a blend mode.
NameLength(m) ==
    CASE m = "normal" -> 6
      [] m = "add" -> 3
      [] m = "overlay" -> 7
      [] m = "color-burn" -> 10

\* pushBlendMode(e, t, r)
BM_pushBlendMode(b, e, t) ==
    BM_setBlendMode([b EXCEPT !.blendModeStack = Append(@, t)], e, t)

\* popBlendMode(e): the stack loses its top; the mode set is the entry at
\* index _activeBlendMode.length - 1 (0-based), "normal" when there is none.
BM_popBlendMode(b) ==
    LET s == SubSeq(b.blendModeStack, 1, Len(b.blendModeStack) - 1)
        k == NameLength(b.activeBlendMode)
        t == IF k \in DOMAIN s THEN s[k] ELSE "normal"
    IN  BM_setBlendMode([b EXCEPT !.blendModeStack = s], "none", t)

\* What the history fields keep of a call of setBlendMode.
BM_noted(b, after, e, t) ==
    [after EXCEPT !.asked = t, !.subject = e, !.sets = b.sets + 1,
                  !.sizeBefore = Len(b.set.instructions)]

(***************************************************************************)
(* ShooterComponent.  Positions are counted in cells: a cell is what an    *)
(* object moves in one tick, a column is wider than any reach.  Enemies    *)
(* enter at row 0 and escape below row Height; the player stands on row    *)
(* height - 1.  Graphics are known by an identity; gameLayer and the stage *)
(* are the sets of the identities attached to them.  The textures of the   *)
(* player are not part of the state.                                       *)
(***************************************************************************)
Width == 1
Height == 3
MaxEnemies == 2
MaxBullets == 1
MaxTexts == 2
MaxScore == 10

EnemyIds == 1..MaxEnemies
BulletIds == {10 + k : k \in 1..MaxBullets}
TextIds == {20 + k : k \in 1..MaxTexts}
KeyCodes == {"ArrowRight", "Space"}

\* The fields of the component after construction; the component has no
\* application, player or listeners until ngAfterViewInit has run.
SH_Init ==
    [ready |-> FALSE, destroyed |-> FALSE,
     running |-> FALSE, lives |-> 3, score |-> 0,
     hidden |-> FALSE, height |-> Height, keys |-> {},
     bullets |-> <<>>, enemies |-> <<>>, layer |-> {},
     player |-> [x |-> Width \div 2, y |-> Height - 1,
                 visible |-> TRUE, isAlive |-> TRUE],
     gameOverText |-> 0, stage |-> {}, blinks |-> <<>>,
     started |-> FALSE, shown |-> 0, roundEvent |-> FALSE]

\* new Graphics() or new Text(): an identity no object of the component has.
SH_new(s, ids) ==
    LET free == ids \ (s.layer \cup s.stage
                       \cup {s.enemies[i].id : i \in DOMAIN s.enemies}
                       \cup {s.bullets[i].id : i \in DOMAIN s.bullets})
    IN  IF free = {} THEN 0 ELSE Min(free)

\* ngAfterViewInit: the listeners and the tick are registered, the player is
\* made, running is false.
SH_ngAfterViewInit(s) ==
    [s EXCEPT !.ready = TRUE, !.running = FALSE,
              !.player = [x |-> Width \div 2, y |-> s.height - 1,
                          visible |-> TRUE, isAlive |-> TRUE]]

\* ngOnDestroy: the listeners and the tick are removed, the application is
\* destroyed.  The interval of explodePlayer is not cleared.
SH_ngOnDestroy(s) == [s EXCEPT !.destroyed = TRUE]

\* start()
SH_start(s) ==
    [s EXCEPT !.layer = @ \ ({s.bullets[i].id : i \in DOMAIN s.bullets}
                             \cup {s.enemies[i].id : i \in DOMAIN s.enemies}),
              !.bullets = <<>>, !.enemies = <<>>,
              !.stage = @ \ {s.gameOverText},
              !.score = 0, !.lives = 3, !.running = TRUE,
              !.started = TRUE, !.shown = 0, !.roundEvent = FALSE]

\* showGameOver(): a new text becomes gameOverText and is added to the stage.
SH_showGameOver(s) ==
    LET t == SH_new(s, TextIds)
    IN  [s EXCEPT !.gameOverText = t, !.stage = @ \cup {t}, !.shown = @ + 1]

\* loseLife()
SH_loseLife(s) ==
    LET next == IF s.lives - 1 > 0 THEN s.lives - 1 ELSE 0
        l == [s EXCEPT !.lives = next]
    IN  IF next <= 0 THEN SH_showGameOver([l EXCEPT !.running = FALSE]) ELSE l

\* explodePlayer(): the player is not alive and an interval begins, with
\* flashes 0.
SH_explodePlayer(s) ==
    [s EXCEPT !.player.isAlive = FALSE, !.blinks = Append(@, 0)]

\* One call of the interval's callback, for the interval at index k.  After
\* ngOnDestroy the application may have no renderer: thrown says that the
\* last call ends at this.app.renderer.width.
SH_blink(s, k, thrown) ==
    LET t == [s EXCEPT !.player.visible = ~@, !.blinks[k] = @ + 1]
    IN  IF t.blinks[k] > 6
        THEN LET u == [t EXCEPT !.blinks = Spliced(@, k),
                                !.player.visible = TRUE,
                                !.player.isAlive = TRUE]
             IN  IF thrown THEN u
                 ELSE SH_loseLife([u EXCEPT !.player.x = Width \div 2])
        ELSE t

\* onKeyDown / onKeyUp
SH_onKeyDown(s, code) == [s EXCEPT !.keys = @ \cup {code}]
SH_onKeyUp(s, code) == [s EXCEPT !.keys = @ \ {code}]

\* onResize, for a window of height h
SH_onResize(s, h) == [s EXCEPT !.height = h, !.player.y = h - 1]

\* onVisibility, for document.hidden = h
SH_onVisibility(s, h) ==
    [s EXCEPT !.hidden = h, !.running = ~h /\ s.lives > 0]

\* dx * dx + dy * dy < r * r, for a reach r of less than two rows and less
\* than a column.
Near(a, b) == a.x = b.x /\ (a.y - b.y) * (a.y - b.y) < 2 * 2

\* The part of tick that moves the player and shoots (lines 279-311).
SH_movePlayer(s, shotDue) ==
    LET clamp(x) == IF x < 0 THEN 0 ELSE IF x > Width THEN Width ELSE x
        l == IF "ArrowLeft" \in s.keys
             THEN [s EXCEPT !.player.x = clamp(@ - 1)] ELSE s
        r == IF "ArrowRight" \in s.keys
             THEN [l EXCEPT !.player.x = clamp(@ + 1)] ELSE l
    IN  IF ~s.player.isAlive THEN s
        ELSE IF "Space" \in s.keys /\ shotDue
        THEN LET b == [id |-> SH_new(r, BulletIds), x |-> r.player.x,
                       y |-> r.player.y]
             IN  [r EXCEPT !.bullets = Append(@, b), !.layer = @ \cup {b.id}]
        ELSE r

\* The loop over the bullets (lines 313-320), from index i down.
RECURSIVE SH_moveBullets(_, _)
SH_moveBullets(s, i) ==
    IF i = 0 THEN s
    ELSE LET b == [s.bullets[i] EXCEPT !.y = @ - 1]
         IN  IF b.y < 0
             THEN SH_moveBullets([s EXCEPT !.layer = @ \ {b.id},
                                           !.bullets = Spliced(@, i)], i - 1)
             ELSE SH_moveBullets([s EXCEPT !.bullets[i] = b], i - 1)

\* The spawn of an enemy in column x (lines 322-329).
SH_spawn(s, x) ==
    LET e == [id |-> SH_new(s, EnemyIds), x |-> x, y |-> 0]
    IN  [s EXCEPT !.enemies = Append(@, e), !.layer = @ \cup {e.id}]

\* splice(i, 1) of an array: no element is removed when i is its length.
SH_splice(q, i) == IF i \in DOMAIN q THEN Spliced(q, i) ELSE q

\* The loop over the enemies (lines 331-365), from index i down.
RECURSIVE SH_moveEnemies(_, _)
SH_moveEnemies(s, i) ==
    IF i = 0 THEN s
    ELSE LET e == [s.enemies[i] EXCEPT !.y = @ + 1]
             m == [s EXCEPT !.enemies[i] = e]
             hits == {j \in DOMAIN m.bullets : Near(m.bullets[j], e)}
             j == CHOOSE k \in hits : \A h \in hits : h <= k
             shot == IF hits = {} THEN m
                     ELSE [m EXCEPT !.layer = @ \ {e.id, m.bullets[j].id},
                                    !.enemies = SH_splice(@, i),
                                    !.bullets = SH_splice(@, j),
                                    !.score = @ + 10]
             hit == IF shot.player.isAlive /\ Near(shot.player, e)
                    THEN SH_explodePlayer(
                             [shot EXCEPT !.layer = @ \ {e.id},
                                          !.enemies = SH_splice(@, i),
                                          !.roundEvent = TRUE])
                    ELSE shot
         IN  IF e.y > m.height
             THEN SH_moveEnemies(
                      SH_loseLife([m EXCEPT !.layer = @ \ {e.id},
                                            !.enemies = SH_splice(@, i),
                                            !.roundEvent = TRUE]),
                      i - 1)
             ELSE SH_moveEnemies(hit, i - 1)

\* tick: shotDue and spawnDue say whether the time since the last shot and
\* the last spawn exceeds the interval; x is the column of the new enemy.
SH_tick(s, shotDue, spawnDue, x) ==
    IF ~s.running THEN s
    ELSE LET p == SH_movePlayer(s, shotDue)
             b == SH_moveBullets(p, Len(p.bullets))
             n == IF spawnDue THEN SH_spawn(b, x) ELSE b
         IN  SH_moveEnemies(n, Len(n.enemies))

(***************************************************************************)
(* FinderComponent.  The player and the target move along one line of      *)
(* cells 0..width; time is counted in half rounds, so that a round lasts   *)
(* roundMs = 2.  now is performance.now().  The timer text of the HUD is   *)
(* not part of the state.                                                  *)
(***************************************************************************)
roundMs == 2
MaxNow == 4
MaxFound == 1
FinderKeys == {"ArrowLeft", "ArrowRight"}

FI_Init ==
    [listening |-> FALSE, loaded |-> FALSE, destroyed |-> FALSE,
     running |-> FALSE, keys |-> {}, gameOverText |-> 0, stage |-> {},
     startTime |-> 0, now |-> 1, hidden |-> FALSE, width |-> Width + 1,
     found |-> 0, player |-> 0, target |-> 0,
     started |-> FALSE, ended |-> FALSE]

\* centerPlayer()
FI_centerPlayer(f) == [f EXCEPT !.player = f.width \div 2]

\* placeTargetRandom(), for the random position x
FI_placeTargetRandom(f, x) ==
    LET dx == x - f.player
    IN  [f EXCEPT !.target = IF dx * dx < 1 THEN f.width - x ELSE x]

\* ngAfterViewInit up to the load of the assets: the listeners and the tick
\* are registered.
FI_listen(f) == [f EXCEPT !.listening = TRUE]

\* ngAfterViewInit after the load: initScene(), running = false.
FI_loaded(f, x) ==
    [FI_placeTargetRandom(FI_centerPlayer(f), x)
        EXCEPT !.loaded = TRUE, !.running = FALSE]

FI_ngOnDestroy(f) == [f EXCEPT !.destroyed = TRUE]

\* start(); without a player centerPlayer() ends the call.
FI_start(f, x) ==
    LET s == [f EXCEPT !.found = 0, !.startTime = f.now, !.running = TRUE,
                       !.stage = @ \ {f.gameOverText}, !.gameOverText = 0,
                       !.started = TRUE, !.ended = FALSE]
    IN  IF f.loaded THEN FI_placeTargetRandom(FI_centerPlayer(s), x) ELSE s

\* showGameOver()
FI_showGameOver(f) ==
    LET free == TextIds \ f.stage
        t == IF free = {} THEN 0 ELSE Min(free)
    IN  [f EXCEPT !.gameOverText = t, !.stage = @ \cup {t}]

FI_onKeyDown(f, code) == [f EXCEPT !.keys = @ \cup {code}]
FI_onKeyUp(f, code) == [f EXCEPT !.keys = @ \ {code}]

\* remainingMs()
FI_remainingMs(f) ==
    IF ~f.running /\ f.startTime = 0 THEN roundMs
    ELSE LET d == f.now - f.startTime
             elapsed == IF d > 0 THEN d ELSE 0
         IN  IF roundMs - elapsed > 0 THEN roundMs - elapsed ELSE 0

\* onVisibility, for document.hidden = h
FI_onVisibility(f, h) ==
    [f EXCEPT !.hidden = h, !.running = ~h /\ FI_remainingMs(f) > 0]

\* onResize, for a window of width w
FI_onResize(f, w) == [f EXCEPT !.width = w]

\* tick; x is the random position of the next target.  Without a player
\* the call ends where it reads the player's speed.
FI_tick(f, x) ==
    LET clamp(p) == IF p < 0 THEN 0 ELSE IF p > f.width THEN f.width ELSE p
        l == IF "ArrowLeft" \in f.keys THEN f.player - 1 ELSE f.player
        r == IF "ArrowRight" \in f.keys THEN l + 1 ELSE l
        m == [f EXCEPT !.player = clamp(r)]
        dx == m.player - m.target
    IN  IF f.running /\ FI_remainingMs(f) <= 0
        THEN FI_showGameOver([f EXCEPT !.running = FALSE, !.ended = TRUE])
        ELSE IF ~f.running \/ ~f.loaded THEN f
        ELSE IF dx * dx < 1
        THEN FI_placeTargetRandom([m EXCEPT !.found = @ + 1], x)
        ELSE m

(***************************************************************************)
(* The parts of the renderer kept in one record.                           *)
(***************************************************************************)
Renderer_Init ==
    [renderTarget |-> RTC_Init,
     registry |-> REG_Init,
     container |-> RC_Init,
     cache |-> CG_Init,
     blend |-> BM_Init,
     nodesBefore |-> TF_Init.nodes,
     shooter |-> SH_Init,
     finder |-> FI_Init]

(***************************************************************************)
(* History records: an effect the builder has pushed, and a mask that is   *)
(* open in execution with what was in force when it began.                 *)
(***************************************************************************)
\* mask: the colour mask of a colour effect, the identity of a stencil mask.
OpenEntry(kind, mask, inverse, toTexture) ==
    [kind |-> kind, mask |-> mask, inverse |-> inverse, toTexture |-> toTexture]

ExecEntry(e, target, colorMask, rtDepth, guDepth, effect, texture) ==
    [kind |-> e.renderPipeId, target |-> target, inverse |-> e.inverse,
     toTexture |-> e.toTexture, closing |-> FALSE, colorMask |-> colorMask,
     rtDepth |-> rtDepth, guDepth |-> guDepth, effect |-> effect,
     texture |-> texture]

NoExpect ==
    [kind |-> "none", target |-> 0, inverse |-> FALSE, toTexture |-> FALSE,
     closing |-> FALSE, colorMask |-> 0, rtDepth |-> 0, guDepth |-> 0,
     effect |-> 0, texture |-> 0]

Top(s) == s[Len(s)]
Pop(s) == SubSeq(s, 1, Len(s) - 1)

\* What a push shadows: the binding in effect when it is made.
Bound(r) == [renderTarget |-> r.renderTarget, viewport |-> r.viewport,
             depth |-> Len(r.stack)]

Init ==
    /\ rt = RT_Init
    /\ rtShadow = <<>>
    /\ rtPopped = Bound(RT_Init)
    /\ gu = GU_Init
    /\ guShadow = <<>>
    /\ guArgs = NoArgs
    /\ bld = IS_Init
    /\ cm = CM_Init
    /\ sm = SM_Init
    /\ am = AM_Init
    /\ gpu = GPU_Init
    /\ phase = "idle"
    /\ pc = 0
    /\ open = <<>>
    /\ pushes = 0
    /\ exec = <<>>
    /\ expect = NoExpect
    /\ scene = Scene_Init
    /\ fr = FR_Init
    /\ tf = TF_Init
    /\ bp = BP_Init
    /\ rgc = GC_Init
    /\ tgc = TG_Init
    /\ renderer = Renderer_Init
    /\ op = "init"

(***************************************************************************)
(* Specification of the render-target stack: a frame starts with           *)
(* renderStart; pushes and pops follow, each pop matching an earlier push. *)
(***************************************************************************)
RtRenderStart ==
    \E t \in Textures, c \in BOOLEAN, f \in FrameArgs :
        /\ rt' = RT_renderStart(rt, t, c, f)
        /\ rtShadow' = <<>>
        /\ op' = "rt.renderStart"
        /\ UNCHANGED <<scene, laterVars, rtPopped, guVars, maskVars>>

RtPush ==
    \E t \in Textures, c \in BOOLEAN, f \in FrameArgs :
        /\ Len(rt.stack) >= 1
        /\ Len(rt.stack) < MaxDepth
        /\ rt' = RT_push(rt, t, c, f)
        /\ rtShadow' = Append(rtShadow, Bound(rt))
        /\ op' = "rt.push"
        /\ UNCHANGED <<scene, laterVars, rtPopped, guVars, maskVars>>

\* pop() of the code reads the entry under the top: with only the entry of
\* renderStart on the stack it throws; the callers pop what they pushed.
RtPop ==
    /\ Len(rtShadow) >= 1
    /\ rt' = RT_pop(rt)
    /\ rtShadow' = SubSeq(rtShadow, 1, Len(rtShadow) - 1)
    /\ rtPopped' = rtShadow[Len(rtShadow)]
    /\ op' = "rt.pop"
    /\ UNCHANGED <<scene, laterVars, guVars, maskVars>>

NextRT == RtRenderStart \/ RtPush \/ RtPop

SpecRT == Init /\ [][NextRT]_vars

(***************************************************************************)
(* C6: after renderStart, pop() re-binds exactly the render target and the *)
(* frame (the viewport) that were bound when the matching push was made,   *)
(* without clearing; the stack depth after a matched push/pop pair is the  *)
(* depth before it, and the entry pushed by renderStart is never removed.  *)
(***************************************************************************)
C6_PopRestoresBinding ==
    op = "rt.pop" =>
        /\ rt.renderTarget = rtPopped.renderTarget
        /\ rt.viewport = rtPopped.viewport
        /\ rt.pass.clear = FALSE
        /\ Len(rt.stack) = rtPopped.depth
        /\ Len(rt.stack) >= 1

\* The parts of C6 that the code does satisfy: target, no clear, depth.
C6_PopRestoresTarget ==
    op = "rt.pop" =>
        /\ rt.renderTarget = rtPopped.renderTarget
        /\ rt.pass = [target |-> rtPopped.renderTarget, clear |-> FALSE,
                      viewport |-> rt.viewport]
        /\ rt.stack[Len(rt.stack)].renderTarget = rtPopped.renderTarget
        /\ Len(rt.stack) = rtPopped.depth
        /\ Len(rt.stack) >= 1

(***************************************************************************)
(* Specification of the global-uniform stack: a frame binds its target     *)
(* (renderStart) and starts the uniforms; pushes and pops follow, each pop *)
(* matching an earlier push of the frame.  Every bind takes a uniform      *)
(* group, so the binds of one frame are bounded.                           *)
(***************************************************************************)
GuRenderStart ==
    /\ rt' = RT_renderStart(rt, Texture(1, FullFrame(1)), TRUE, Undefined)
    /\ op' = "rt.renderStart"
    /\ UNCHANGED <<scene, laterVars, rtShadow, rtPopped, guVars, maskVars>>

GuStart ==
    \E a \in UniformArgs :
        /\ rt.renderTarget # Undefined
        /\ gu' = GU_start(gu, rt, a)
        /\ guShadow' = <<>>
        /\ guArgs' = a
        /\ op' = "gu.start"
        /\ UNCHANGED <<scene, laterVars, rtVars, maskVars>>

GuPush ==
    \E a \in UniformArgs :
        /\ gu.stackIndex >= 1
        /\ Len(guShadow) < GuDepth
        /\ gu.activeUniforms < MaxBinds
        /\ gu' = GU_push(gu, rt, a)
        /\ guShadow' = Append(guShadow, gu.current)
        /\ guArgs' = a
        /\ op' = "gu.push"
        /\ UNCHANGED <<scene, laterVars, rtVars, maskVars>>

\* pop() with only the entry of start() on the stack leaves no current data;
\* the callers pop what they pushed.
GuPop ==
    /\ Len(guShadow) >= 1
    /\ gu' = GU_pop(gu)
    /\ guShadow' = SubSeq(guShadow, 1, Len(guShadow) - 1)
    /\ op' = "gu.pop"
    /\ UNCHANGED <<scene, laterVars, rtVars, guArgs, maskVars>>

NextGU == GuRenderStart \/ GuStart \/ GuPush \/ GuPop

SpecGU == Init /\ [][NextGU]_vars

(***************************************************************************)
(* Specification of the mask pipes over one frame.  The frame binds the    *)
(* screen and starts a build; the builder (collectRenderablesWithEffects)  *)
(* pushes effects and pops them in LIFO order, each push and pop adding    *)
(* the instructions of its pipe; then the uniforms are started and the     *)
(* instructions are executed in order.                                     *)
(***************************************************************************)
ColorMasks == {5, 6}

\* The options of globalUniforms.start in RenderGroupSystem.render.
RenderUniformArgs ==
    [size |-> 0, projectionMatrix |-> 0, worldTransformMatrix |-> 2,
     worldColor |-> 128, offset |-> 0]

\* Renderer.render up to the build: renderStart on the screen, then
\* _buildInstructions: instructionSet.reset(), colorMask.buildStart().
FrameStart ==
    /\ phase = "idle"
    /\ rt' = RT_renderStart(rt, Texture(1, FullFrame(1)), TRUE, Undefined)
    /\ bld' = IS_Init
    /\ cm' = CM_buildStart(cm)
    /\ phase' = "build"
    /\ op' = "frameStart"
    /\ UNCHANGED <<scene, laterVars, rtShadow, rtPopped, guVars, sm, am, gpu, pc, open, pushes, exec, expect>>

CanPush == phase = "build" /\ pushes < MaxEffects

BuildColorPush ==
    \E m \in ColorMasks :
        /\ CanPush
        /\ bld' = CM_pushInstr(cm, bld, m)
        /\ cm' = CM_push(cm, m)
        /\ open' = Append(open, OpenEntry("color", m, FALSE, FALSE))
        /\ pushes' = pushes + 1
        /\ op' = "colorMask.push"
        /\ UNCHANGED <<scene, laterVars, rtVars, guVars, sm, am, gpu, phase, pc, exec, expect>>

BuildColorPop ==
    /\ phase = "build"
    /\ open # <<>> /\ Top(open).kind = "color"
    /\ bld' = CM_popInstr(cm, bld)
    /\ cm' = CM_pop(cm)
    /\ open' = Pop(open)
    /\ UNCHANGED pushes
    /\ op' = "colorMask.pop"
    /\ UNCHANGED <<scene, laterVars, rtVars, guVars, sm, am, gpu, phase, pc, exec, expect>>

BuildStencilPush ==
    \E inverse \in BOOLEAN :
        /\ CanPush
        /\ bld' = SM_pushInstr(bld, inverse)
        /\ sm' = SM_push(sm, bld, pushes + 1, rt.renderTarget.source)
        /\ open' = Append(open, OpenEntry("stencil", pushes + 1, inverse, FALSE))
        /\ pushes' = pushes + 1
        /\ op' = "stencilMask.push"
        /\ UNCHANGED <<scene, laterVars, rtVars, guVars, cm, am, gpu, phase, pc, exec, expect>>

BuildStencilPop ==
    /\ phase = "build"
    /\ open # <<>> /\ Top(open).kind = "stencil"
    /\ bld' = SM_popInstr(sm, bld, Top(open).mask, Top(open).inverse)
    /\ sm' = SM_pop(sm, Top(open).mask)
    /\ open' = Pop(open)
    /\ UNCHANGED pushes
    /\ op' = "stencilMask.pop"
    /\ UNCHANGED <<scene, laterVars, rtVars, guVars, cm, am, gpu, phase, pc, exec, expect>>

\* AlphaMaskPipe.push up to the content of a mask rendered to texture (the
\* content is collected by the builder, and may push effects of its own);
\* the whole push for a mask that is not.
BuildAlphaPush ==
    \E inverse \in BOOLEAN, toTexture \in BOOLEAN :
        /\ CanPush
        /\ bld' = IF toTexture
                  THEN AM_pushBeginInstr(bld, inverse, toTexture)
                  ELSE AM_pushEndInstr(AM_pushBeginInstr(bld, inverse, toTexture),
                                       inverse, toTexture)
        /\ open' = Append(open, OpenEntry(IF toTexture THEN "alphaContent" ELSE "alpha",
                                          0, inverse, toTexture))
        /\ pushes' = pushes + 1
        /\ op' = "alphaMask.push"
        /\ UNCHANGED <<scene, laterVars, rtVars, guVars, cm, sm, am, gpu, phase, pc, exec, expect>>

\* AlphaMaskPipe.push after the content of a mask rendered to texture.
BuildAlphaPushEnd ==
    /\ phase = "build"
    /\ open # <<>> /\ Top(open).kind = "alphaContent"
    /\ bld' = AM_pushEndInstr(Batch_add(bld), Top(open).inverse, TRUE)
    /\ open' = Append(Pop(open), OpenEntry("alpha", 0, Top(open).inverse, TRUE))
    /\ UNCHANGED pushes
    /\ op' = "alphaMask.pushEnd"
    /\ UNCHANGED <<scene, laterVars, rtVars, guVars, cm, sm, am, gpu, phase, pc, exec, expect>>

BuildAlphaPop ==
    /\ phase = "build"
    /\ open # <<>> /\ Top(open).kind = "alpha"
    /\ bld' = AM_popInstr(bld, Top(open).inverse, Top(open).toTexture)
    /\ open' = Pop(open)
    /\ UNCHANGED pushes
    /\ op' = "alphaMask.pop"
    /\ UNCHANGED <<scene, laterVars, rtVars, guVars, cm, sm, am, gpu, phase, pc, exec, expect>>

\* The end of _buildInstructions (batch.buildEnd breaks the last batch),
\* then globalUniforms.start in RenderGroupSystem.render.
BuildEnd ==
    /\ phase = "build"
    /\ open = <<>>
    /\ bld' = Batch_break(bld)
    /\ gu' = GU_start(gu, rt, RenderUniformArgs)
    /\ phase' = "execute"
    /\ pc' = 0
    /\ op' = "buildEnd"
    /\ UNCHANGED <<scene, laterVars, rtVars, guShadow, guArgs, cm, sm, am, gpu, open, pushes, exec, expect>>

\* The history of the masks in execution: a mask enters at its
\* pushMaskBegin, a stencil mask is closing from its popMaskBegin, and a
\* mask leaves at its popMaskEnd.
ExecAfter(x, e) ==
    CASE e.action = "pushMaskBegin" ->
            Append(x, ExecEntry(e, rt.renderTarget.source, gpu.colorMask,
                                Len(rt.stack), gu.stackIndex,
                                IF e.renderPipeId = "alphaMask" THEN Pool_get(am) ELSE 0,
                                IF e.toTexture THEN Pool_texture(am) ELSE 0))
      [] e.action = "popMaskBegin" /\ x # <<>> ->
            [x EXCEPT ![Len(x)].closing = TRUE]
      [] e.action = "popMaskEnd" /\ x # <<>> -> Pop(x)
      [] OTHER -> x

ExpectAfter(x, e) ==
    IF e.action \in {"pushMaskEnd", "popMaskEnd"} /\ x # <<>>
    THEN Top(x)
    ELSE NoExpect

\* executeInstructions (N): instructions[pc] goes to the pipe it names.
ExecuteStep ==
    /\ phase = "execute"
    /\ pc < Len(bld.instructions)
    /\ LET e == bld.instructions[pc + 1]
           uid == rt.renderTarget.source
           w == AM_execute([rt |-> rt, gu |-> gu, am |-> am], e)
       IN  /\ pc' = pc + 1
           /\ op' = e.renderPipeId \o "." \o e.action
           /\ exec' = ExecAfter(exec, e)
           /\ expect' = ExpectAfter(exec, e)
           /\ gpu' = CASE e.renderPipeId = "colorMask" -> CM_execute(gpu, e)
                       [] e.renderPipeId = "stencilMask" ->
                              SM_executeRenderer(gpu, sm, e, uid)
                       [] OTHER -> gpu
           /\ sm' = IF e.renderPipeId = "stencilMask"
                    THEN SM_execute(sm, e, uid) ELSE sm
           /\ rt' = CASE e.renderPipeId = "alphaMask" -> w.rt
                      [] e.renderPipeId = "stencilMask" /\ e.action = "pushMaskBegin" ->
                             RT_ensureDepthStencil(rt)
                      [] OTHER -> rt
           /\ gu' = IF e.renderPipeId = "alphaMask" THEN w.gu ELSE gu
           /\ am' = IF e.renderPipeId = "alphaMask" THEN w.am ELSE am
    /\ UNCHANGED <<scene, laterVars, rtShadow, rtPopped, guShadow, guArgs, bld, cm, phase, open, pushes>>

\* The last instruction is executed: the frame is over.
FrameEnd ==
    /\ phase = "execute"
    /\ pc = Len(bld.instructions)
    /\ phase' = "done"
    /\ op' = "frameEnd"
    /\ UNCHANGED <<scene, laterVars, rtVars, guVars, bld, cm, sm, am, gpu, pc, open, pushes, exec, expect>>

NextMask ==
    \/ FrameStart
    \/ BuildColorPush \/ BuildColorPop
    \/ BuildStencilPush \/ BuildStencilPop
    \/ BuildAlphaPush \/ BuildAlphaPushEnd \/ BuildAlphaPop
    \/ BuildEnd
    \/ ExecuteStep
    \/ FrameEnd

SpecMask == Init /\ [][NextMask]_vars

(***************************************************************************)
(* The masks open in execution, by kind and render target.                 *)
(***************************************************************************)
StencilOpen(T) ==
    {i \in DOMAIN exec :
        exec[i].kind = "stencilMask" /\ exec[i].target = T /\ ~exec[i].closing}

AlphaOpen == {i \in DOMAIN exec : exec[i].kind = "alphaMask"}

Targets == 1..(MaxEffects + 2)

(***************************************************************************)
(* C1: over properly nested stencil instructions the reference count of    *)
(* every render target is the number of stencil masks open on it: one more *)
(* after each pushMaskBegin, one less after each popMaskBegin, 0 once the  *)
(* outermost is popped, and untouched by the masks of other targets.       *)
(***************************************************************************)
C1_CountIsOpenMasks ==
    \A T \in Targets :
        Count(sm.maskStackHash, T) = Cardinality(StencilOpen(T))

C1_Witness ==
    /\ Count(sm.maskStackHash, 1) = 1
    /\ Count(sm.maskStackHash, 2) = 1
    /\ rt.renderTarget.source = 2

(***************************************************************************)
(* C3: after buildStart the effective colour mask is 15 ANDed with every   *)
(* mask pushed and not yet popped.                                         *)
(***************************************************************************)
RECURSIVE AndOfOpen(_)
AndOfOpen(o) ==
    IF o = <<>> THEN RGBA
    ELSE IF Top(o).kind = "color"
         THEN BitAnd(AndOfOpen(Pop(o)), Top(o).mask)
         ELSE AndOfOpen(Pop(o))

C3_CurrentColorIsAndOfPushed ==
    phase = "build" => cm.currentColor = AndOfOpen(open)

C3_Witness ==
    /\ op = "colorMask.pop"
    /\ Len(SelectSeq(open, LAMBDA o : o.kind = "color")) = 1
    /\ cm.currentColor # RGBA
    /\ cm.colorStack[cm.colorStackIndex + 1] # cm.currentColor

(***************************************************************************)
(* C4: a stencil mask pushed and popped while the colour-write mask is not *)
(* full RGBA leaves the colour-write mask at its value before the push.    *)
(***************************************************************************)
C4_StencilRestoresColorMask ==
    (op = "stencilMask.popMaskEnd" /\ expect.colorMask # RGBA)
        => gpu.colorMask = expect.colorMask

(***************************************************************************)
(* C5: after the popMaskEnd of a stencil mask popped inside a still active *)
(* outer stencil mask A of the same target, the comparison in force is A's *)
(* (INVERSE_MASK_ACTIVE for an inverse A, MASK_ACTIVE else) with A's count. *)
(***************************************************************************)
C5_OuterComparisonRestored ==
    LET S == StencilOpen(rt.renderTarget.source)
    IN  (op = "stencilMask.popMaskEnd" /\ S # {}) =>
            LET A == exec[CHOOSE i \in S : \A j \in S : j <= i]
            IN  /\ gpu.stencilMode =
                       IF A.inverse THEN "INVERSE_MASK_ACTIVE" ELSE "MASK_ACTIVE"
                /\ gpu.stencilRef = Cardinality(S)

C7_UniformStack ==
    [][/\ op' = "gu.pop" => gu'.current = Top(guShadow)
       /\ op' = "gu.push" =>
              /\ guArgs'.worldTransformMatrix = 0 =>
                     gu'.current.worldTransformMatrix = gu.current.worldTransformMatrix
              /\ guArgs'.worldColor = 0 =>
                     gu'.current.worldColor = gu.current.worldColor
              /\ guArgs'.offset = 0 => gu'.current.offset = gu.current.offset
              /\ guArgs'.worldTransformMatrix # 0 =>
                     gu'.current.worldTransformMatrix = guArgs'.worldTransformMatrix
       /\ op' \in {"gu.start", "gu.push", "gu.pop"} => gu'.stackIndex >= 1]_vars

C7_Witness ==
    /\ op = "gu.pop"
    /\ Len(guShadow) = 1
    /\ guArgs.worldTransformMatrix = 0
    /\ guArgs.worldColor # 0
    /\ gu.current.worldColor # gu.stack[gu.stackIndex + 1].worldColor
    /\ gu.current.worldTransformMatrix = gu.stack[gu.stackIndex + 1].worldTransformMatrix

(***************************************************************************)
(* Specification of StencilMaskPipe.execute on any instruction: the pipe   *)
(* is handed stencil instructions in any order, on any bound target.       *)
(***************************************************************************)
StencilInstrs ==
    {Instr("stencilMask", a, i, 0, FALSE) :
        a \in {"pushMaskBegin", "pushMaskEnd", "popMaskBegin", "popMaskEnd"},
        i \in BOOLEAN}

AnyBind ==
    \E s \in Sources :
        /\ rt' = RT_renderStart(rt, Texture(s, FullFrame(s)), TRUE, Undefined)
        /\ op' = "rt.renderStart"
        /\ UNCHANGED <<scene, laterVars, rtShadow, rtPopped, guVars, maskVars>>

AnyExecute ==
    \E e \in StencilInstrs :
        /\ rt.renderTarget # Undefined
        /\ LET uid == rt.renderTarget.source
           IN  /\ Count(sm.maskStackHash, uid) < MaxDepth
               /\ Count(sm.maskStackHash, uid) > -MaxDepth
               /\ gpu' = SM_executeRenderer(gpu, sm, e, uid)
               /\ sm' = SM_execute(sm, e, uid)
               /\ rt' = IF e.action = "pushMaskBegin"
                        THEN RT_ensureDepthStencil(rt) ELSE rt
        /\ op' = e.renderPipeId \o "." \o e.action
        /\ UNCHANGED <<scene, laterVars, rtShadow, rtPopped, guVars, bld, cm, am, phase, pc, open,
                       pushes, exec, expect>>

NextStencilAny == AnyBind \/ AnyExecute

SpecStencilAny == Init /\ [][NextStencilAny]_vars

(***************************************************************************)
(* C2: whatever stencil instructions are executed on a render target, a    *)
(* popMaskBegin at count 0 included, its reference count is never          *)
(* negative.                                                               *)
(***************************************************************************)
C2_CountNeverNegative ==
    \A T \in Sources : Count(sm.maskStackHash, T) >= 0

(***************************************************************************)
(* Specification of the render-group update: the application attaches and  *)
(* detaches sprites and swaps their textures between frames; a frame       *)
(* updates every render group.                                             *)
(***************************************************************************)
AddChild ==
    \E s \in Sprites, g \in Groups :
        /\ scene.sprites[s].group = 0
        /\ scene' = setGroup(forgotten(scene), s, g)
        /\ op' = "addChild"
        /\ UNCHANGED <<rtVars, guVars, maskVars, laterVars>>

RemoveChild ==
    \E s \in Sprites :
        /\ scene.sprites[s].group # 0
        /\ scene' = setGroup(forgotten(scene), s, 0)
        /\ op' = "removeChild"
        /\ UNCHANGED <<rtVars, guVars, maskVars, laterVars>>

SetTexture ==
    \E s \in Sprites, x \in SpriteTextures :
        /\ scene.sprites[s].texture # x
        /\ scene' = setTexture(forgotten(scene), s, x)
        /\ op' = "setTexture"
        /\ UNCHANGED <<rtVars, guVars, maskVars, laterVars>>

Render ==
    /\ scene' = updateRenderGroups(scene, 1)
    /\ op' = "render"
    /\ UNCHANGED <<rtVars, guVars, maskVars, laterVars>>

NextRG == AddChild \/ RemoveChild \/ SetTexture \/ Render

SpecRG == Init /\ [][NextRG]_vars

C10_TextureChangeNeverRebuilds ==
    op = "render" =>
        \A g \in Groups : scene.log[g].rebuilt => scene.log[g].entrySdc

\* C10 as amended: a texture change on sprites of a group whose structure
\* did not change leaves the instruction set alone and updates the sprites
\* in place, provided the batch of the group already holds the source of
\* every new texture.
C10_TextureInBatchUpdatesInPlace ==
    op = "render" =>
        \A g \in Groups :
            LET l == scene.log[g]
            IN  (~l.entrySdc /\ l.queued # {} /\ l.misfit = {}) =>
                    /\ ~l.rebuilt
                    /\ scene.groups[g].instructions = l.before
                    /\ \A s \in l.queued :
                          /\ scene.sprites[s].gpuTexture = scene.sprites[s].texture
                          /\ ~scene.sprites[s].didViewUpdate

\* A frame after a texture swap between two textures of the same batch.
C10_Witness ==
    /\ op = "render"
    /\ \E g \in Groups :
          /\ ~scene.log[g].entrySdc
          /\ scene.log[g].queued # {}
          /\ scene.log[g].misfit = {}
          /\ ~scene.log[g].rebuilt
          /\ Cardinality(scene.groups[g].batchTextures) > 1

(***************************************************************************)
(* Specification of the steps of a frame: the application attaches and     *)
(* detaches render groups, changes their structure and caches them as      *)
(* textures; render() draws the tree.                                      *)
(***************************************************************************)
FrAttach ==
    \E g \in FrameGroups \ {1}, p \in FrameGroups :
        /\ p < g
        /\ fr.parent[g] = 0
        /\ FR_attached(fr, p)
        /\ fr' = FR_attach(fr, g, p)
        /\ op' = "fr.attach"
        /\ UNCHANGED <<rtVars, guVars, maskVars, sceneVars, tf, bp, rgc, tgc, renderer>>

FrDetach ==
    \E g \in FrameGroups \ {1} :
        /\ fr.parent[g] # 0
        /\ fr' = FR_detach(fr, g)
        /\ op' = "fr.detach"
        /\ UNCHANGED <<rtVars, guVars, maskVars, sceneVars, tf, bp, rgc, tgc, renderer>>

\* A child was added to, removed from or reordered in a group.
FrStructure ==
    \E g \in FrameGroups :
        /\ ~fr.structureDidChange[g]
        /\ fr' = [fr EXCEPT !.structureDidChange[g] = TRUE, !.trace = <<>>]
        /\ op' = "fr.structure"
        /\ UNCHANGED <<rtVars, guVars, maskVars, sceneVars, tf, bp, rgc, tgc, renderer>>

\* container.cacheAsTexture(true / false), container.updateCacheTexture()
FrCache ==
    \E g \in FrameGroups \ {1}, c, u \in BOOLEAN :
        /\ u => c
        /\ <<c, u>> # <<fr.isCachedAsTexture[g], fr.textureNeedsUpdate[g]>>
        /\ fr' = [fr EXCEPT !.isCachedAsTexture[g] = c,
                            !.textureNeedsUpdate[g] = u,
                            !.trace = <<>>]
        /\ op' = "fr.cache"
        /\ UNCHANGED <<rtVars, guVars, maskVars, sceneVars, tf, bp, rgc, tgc, renderer>>

FrRender ==
    \E same \in SUBSET (FrameGroups \ {1}) :
        /\ fr' = FR_render(fr, same)
        /\ op' = "fr.render"
        /\ UNCHANGED <<rtVars, guVars, maskVars, sceneVars, tf, bp, rgc, tgc, renderer>>

NextFrame == FrAttach \/ FrDetach \/ FrStructure \/ FrCache \/ FrRender

SpecFrame == Init /\ [][NextFrame]_vars

\* The place of a step in the order the specification gives.
StepRank(s) ==
    CASE s = "transform" -> 1
      [] s = "build" -> 2
      [] s = "update" -> 2
      [] s = "upload" -> 3
      [] s = "execute" -> 4

\* C11 as stated: within one render() the steps of the frame as a whole are
\* in the order transform propagation, instruction building, batch upload,
\* backend execution, nested render groups included.
C11_FrameWideOrder ==
    op = "fr.render" =>
        \A i, j \in DOMAIN fr.trace :
            i < j => StepRank(fr.trace[i][1]) <= StepRank(fr.trace[j][1])

\* The positions in the trace of a step of a group.
At(step, g) == {i \in DOMAIN fr.trace : fr.trace[i] = <<step, g>>}

\* C11 as amended: for each render group, its transform propagation
\* precedes its instruction building (or in-place update), which precedes
\* its batch upload, each done once; and every propagation, building and
\* upload of the frame precedes every backend execution of it; a group is
\* executed only after it was updated in the frame.
C11_OrderPerGroup ==
    op = "fr.render" =>
        /\ \A g \in FrameGroups :
              /\ Cardinality(At("transform", g)) <= 1
              /\ Cardinality(At("upload", g)) = Cardinality(At("transform", g))
              /\ Cardinality(At("build", g) \cup At("update", g))
                    = Cardinality(At("transform", g))
              /\ \A i \in At("transform", g),
                    j \in At("build", g) \cup At("update", g),
                    k \in At("upload", g) : i < j /\ j < k
              /\ At("execute", g) # {} => At("upload", g) # {}
        /\ \A i, j \in DOMAIN fr.trace :
              (fr.trace[i][1] # "execute" /\ fr.trace[j][1] = "execute") => i < j

\* A frame with a nested render group, both rebuilt and executed.
C11_Witness ==
    /\ op = "fr.render"
    /\ \E g \in FrameGroups \ {1} :
          /\ At("build", g) # {} /\ At("execute", g) # {}
          /\ At("build", 1) # {} /\ At("execute", 1) # {}

(***************************************************************************)
(* Specifications of the propagation: the application changes transforms   *)
(* (SpecTF) or alphas (SpecAlpha) and moves the sprite about the scene; a  *)
(* frame propagates every render group; updateRenderGroupTransforms may    *)
(* also be called on one group.                                            *)
(***************************************************************************)
\* The state as an application step finds it: no pass is on record, one
\* more change was made since the last frame.
Unpassed(w) == [w EXCEPT !.passes = <<>>, !.repeated = FALSE, !.changes = @ + 1]

\* The state as a pass finds it.
Settled(w) == [w EXCEPT !.passes = <<>>, !.repeated = FALSE]

\* The groups the passes on record went over.
Passed(w) == {w.passes[i].group : i \in DOMAIN w.passes}

\* No bucket holds more entries, and no frame sees more changes, than the
\* model keeps.
Queueable(w) ==
    /\ w.changes <= MaxChanges
    /\ \A g \in TGroups, d \in BucketDepths :
          w.groups[g].childrenToUpdate[d].index <= MaxQueued

TfSetTransform ==
    \E n \in TNodes : \E v \in Locals(n) :
        /\ v # tf.nodes[n].localTransform
        /\ tf' = setTransform(Unpassed(tf), n, v)
        /\ Queueable(tf')
        /\ op' = "tf.set"
        /\ UNCHANGED <<rtVars, guVars, maskVars, sceneVars, fr, bp, rgc, tgc, renderer>>

TfSetAlpha ==
    \E n \in TNodes : \E a \in Alphas(n) :
        /\ a # tf.nodes[n].localAlpha
        /\ tf' = setAlpha(Unpassed(tf), n, a)
        /\ Queueable(tf')
        /\ op' = "tf.set"
        /\ UNCHANGED <<rtVars, guVars, maskVars, sceneVars, fr, bp, rgc, tgc, renderer>>

TfMove ==
    \E p \in 0..3 :
        /\ p # tf.nodes[Sprite].parent
        /\ LET a == Unpassed(tf)
               b == IF a.nodes[Sprite].parent # 0 THEN removeChild(a, Sprite) ELSE a
           IN  tf' = IF p # 0 THEN addChild(b, p, Sprite) ELSE b
        /\ Queueable(tf')
        /\ op' = "tf.move"
        /\ UNCHANGED <<rtVars, guVars, maskVars, sceneVars, fr, bp, rgc, tgc, renderer>>

TfRender ==
    /\ \A g \in TGroups : tf.groups[g].updateTick < MaxTicks
    /\ tf' = TF_updateRenderGroups([Settled(tf) EXCEPT !.changes = 0], 1)
    /\ op' = "tf.render"
    /\ UNCHANGED <<rtVars, guVars, maskVars, sceneVars, fr, bp, rgc, tgc, renderer>>

TfPass ==
    \E g \in TGroups :
        /\ tf.groups[g].updateTick < MaxTicks
        /\ tf' = [updateRenderGroupTransforms(Settled(tf), g) EXCEPT
                     !.repeated = g \in Passed(tf)]
        /\ op' = "tf.pass"
        /\ UNCHANGED <<rtVars, guVars, maskVars, sceneVars, fr, bp, rgc, tgc, renderer>>

NextTF == TfSetTransform \/ TfMove \/ TfRender \/ TfPass

SpecTF == Init /\ [][NextTF]_vars

NextAlpha == TfSetAlpha \/ TfMove \/ TfRender

SpecAlpha == Init /\ [][NextAlpha]_vars

\* The number of times x occurs in the sequence s.
Occurrences(s, x) == Cardinality({i \in DOMAIN s : s[i] = x})

\* C12: in one propagation pass over a render group each container is
\* recomputed at most once, however it is registered: in two depth
\* buckets, twice in one bucket, or itself and below a registered ancestor.
C12_RecomputedAtMostOnce ==
    \A k \in DOMAIN tf.passes :
        \A n \in TNodes : Occurrences(tf.passes[k].visited, n) <= 1

\* A pass that found the sprite registered twice and its parent registered
\* too, and recomputed the sprite.
C12_Witness ==
    \E k \in DOMAIN tf.passes :
        LET r == tf.passes[k].registered
        IN  /\ Cardinality({i \in DOMAIN r : r[i][2] = Sprite}) >= 2
            /\ \E i \in DOMAIN r : r[i][2] = tf.nodes[Sprite].parent
            /\ Occurrences(tf.passes[k].visited, Sprite) = 1

\* The product, in order, of the local transforms of the ancestors of n
\* strictly inside its render group and of n itself.
RECURSIVE GroupProduct(_)
GroupProduct(n) ==
    LET s == tf.nodes[n].parent
    IN  IF s = 0 \/ IsGroupRoot(s)
        THEN tf.nodes[n].localTransform
        ELSE appendFrom(tf.nodes[n].localTransform, GroupProduct(s))

\* C13: after a propagation pass over a render group, every container of
\* the group has as relative group transform the in-order product of the
\* local transforms of its ancestors strictly inside the group and its
\* own, and the world transform of the group is its root's relative group
\* transform appended to the world transform of the parent group (the
\* root's local transform for the top group).
C13_TransformIsProduct ==
    \A k \in DOMAIN tf.passes :
        LET g == tf.passes[k].group
        IN  /\ \A n \in TNodes :
                  tf.nodes[n].parentRenderGroup = g =>
                      tf.nodes[n].relativeGroupTransform = GroupProduct(n)
            /\ tf.groups[g].worldTransform =
                  IF GroupParent(tf, g) = 0
                  THEN tf.nodes[g].localTransform
                  ELSE appendFrom(tf.nodes[g].relativeGroupTransform,
                                  tf.groups[GroupParent(tf, g)].worldTransform)

\* A frame after which the nested group's root carries the product of two
\* local transforms that do not commute, under a transformed top root.
C13_Witness ==
    /\ op = "tf.render"
    /\ tf.nodes[2].localTransform = Doubled
    /\ tf.nodes[3].localTransform = Shifted
    /\ tf.nodes[1].localTransform = Shifted
    /\ tf.nodes[3].relativeGroupTransform = <<2, 2>>
    /\ tf.groups[3].worldTransform = <<2, 3>>

\* C15 as stated: after updateRenderGroupTransforms(group) every depth
\* bucket of the group is empty, its index 0 and its entries cleared, and a
\* second call with no mutation in between visits no container and
\* requests no renderable update.
C15_BucketsCleared ==
    \A k \in DOMAIN tf.passes :
        /\ \A d \in BucketDepths :
              LET b == tf.groups[tf.passes[k].group].childrenToUpdate[d]
              IN  b.index = 0 /\ \A i \in DOMAIN b.list : b.list[i] = 0
        /\ tf.repeated =>
              tf.passes[k].visited = <<>> /\ tf.passes[k].updates = <<>>

\* C15 as amended: after updateRenderGroupTransforms(group) every depth
\* bucket of the group has index 0 (the entries the pass went through stay
\* in the list until overwritten), and a second call with no mutation in
\* between finds nothing registered, visits no container and requests no
\* renderable update.
C15_SecondPassDoesNothing ==
    \A k \in DOMAIN tf.passes :
        /\ \A d \in BucketDepths :
              tf.groups[tf.passes[k].group].childrenToUpdate[d].index = 0
        /\ tf.repeated =>
              /\ tf.passes[k].registered = <<>>
              /\ tf.passes[k].visited = <<>>
              /\ tf.passes[k].updates = <<>>

\* A second call on a group whose first call had recomputed a container.
C15_Witness ==
    /\ op = "tf.pass"
    /\ tf.repeated
    /\ \E n \in TNodes :
          /\ tf.nodes[n].parentRenderGroup = tf.passes[1].group
          /\ tf.nodes[n].updateTick = tf.groups[tf.passes[1].group].updateTick - 2

\* The group alpha the code is said to give n: the product of the local
\* alphas of n and of its ancestors strictly inside its render group.
RECURSIVE AlphaProduct(_)
AlphaProduct(n) ==
    LET s == tf.nodes[n].parent
    IN  IF s = 0 \/ IsGroupRoot(s)
        THEN tf.nodes[n].localAlpha
        ELSE Times(tf.nodes[n].localAlpha, AlphaProduct(s))

\* The same product, clamped at every container on the way down.
RECURSIVE AlphaClampedDown(_)
AlphaClampedDown(n) ==
    LET s == tf.nodes[n].parent
    IN  IF s = 0 \/ IsGroupRoot(s)
        THEN Clamp(tf.nodes[n].localAlpha)
        ELSE Clamp(Times(tf.nodes[n].localAlpha, AlphaClampedDown(s)))

\* The world alpha of group g, from its root and its parent group.
WorldAlphaOf(g) ==
    IF GroupParent(tf, g) = 0
    THEN Clamp(tf.nodes[g].localAlpha)
    ELSE Clamp(Times(tf.nodes[g].groupAlpha,
                     tf.groups[GroupParent(tf, g)].worldAlpha))

\* In every state the alphas lie in [0, 1] and each packed value is the
\* colour + (floor(alpha * 255) << 24) of the colour and alpha beside it.
AlphasInRangeAndPacked ==
    /\ \A n \in TNodes :
          /\ tf.nodes[n].groupAlpha \in 0..AlphaOne
          /\ tf.nodes[n].groupColorAlpha = ColorAlpha(WhiteRGB, tf.nodes[n].groupAlpha)
    /\ \A g \in TGroups :
          /\ tf.groups[g].worldAlpha \in 0..AlphaOne
          /\ tf.groups[g].worldColorAlpha = ColorAlpha(WhiteRGB, tf.groups[g].worldAlpha)

\* C14 as stated: after propagation the group alpha of a container is the
\* product of the local alphas of it and of its ancestors up to the
\* render-group boundary, clamped to [0, 1]; the world alpha of a group is
\* its root's group alpha times the parent group's world alpha, clamped;
\* the alphas lie in [0, 1] and the packed values follow them, always.
C14_AlphaIsClampedProduct ==
    /\ AlphasInRangeAndPacked
    /\ \A k \in DOMAIN tf.passes :
          LET g == tf.passes[k].group
          IN  /\ \A n \in TNodes :
                    tf.nodes[n].parentRenderGroup = g =>
                        tf.nodes[n].groupAlpha = Clamp(AlphaProduct(n))
              /\ tf.groups[g].worldAlpha = WorldAlphaOf(g)

\* C14 as amended: the product is clamped to [0, 1] at every container on
\* the way down from the boundary (the same value when every local alpha
\* lies in [0, 1]); the rest as stated.
C14_AlphaClampedAtEachLevel ==
    /\ AlphasInRangeAndPacked
    /\ \A k \in DOMAIN tf.passes :
          LET g == tf.passes[k].group
          IN  /\ \A n \in TNodes :
                    tf.nodes[n].parentRenderGroup = g =>
                        tf.nodes[n].groupAlpha = AlphaClampedDown(n)
              /\ tf.groups[g].worldAlpha = WorldAlphaOf(g)

\* Alpha 0.5 under 0.8 under 1.0 gives the nested group the world alpha 0.4.
C14_Witness ==
    /\ op = "tf.render"
    /\ tf.nodes[1].localAlpha = AlphaOne
    /\ tf.nodes[2].localAlpha = 800
    /\ tf.nodes[3].localAlpha = 500
    /\ tf.nodes[3].groupAlpha = 400
    /\ tf.groups[3].worldAlpha = 400

(***************************************************************************)
(* Specification of the batcher pipe: instruction sets are built one at a  *)
(* time; a build adds renderables of either batcher and may break.         *)
(***************************************************************************)
BpBuildStart ==
    \E u \in InstructionSets :
        /\ ~bp.building
        /\ bp' = BP_buildStart(bp, u)
        /\ op' = "bp.buildStart"
        /\ UNCHANGED <<rtVars, guVars, maskVars, sceneVars, fr, tf, rgc, tgc, renderer>>

BpAddToBatch ==
    \E name \in BatcherNames :
        /\ bp.building
        /\ Len(bp.keys) < MaxAdds
        /\ bp' = BP_addToBatch(bp, Len(bp.keys) + 1, name)
        /\ op' = "bp.addToBatch"
        /\ UNCHANGED <<rtVars, guVars, maskVars, sceneVars, fr, tf, rgc, tgc, renderer>>

BpBreak ==
    /\ bp.building
    /\ ~bp.broken
    /\ bp' = BP_break(bp)
    /\ op' = "bp.break"
    /\ UNCHANGED <<rtVars, guVars, maskVars, sceneVars, fr, tf, rgc, tgc, renderer>>

BpBuildEnd ==
    /\ bp.building
    /\ bp' = BP_buildEnd(bp)
    /\ op' = "bp.buildEnd"
    /\ UNCHANGED <<rtVars, guVars, maskVars, sceneVars, fr, tf, rgc, tgc, renderer>>

NextBatch == BpBuildStart \/ BpAddToBatch \/ BpBreak \/ BpBuildEnd

SpecBatch == Init /\ [][NextBatch]_vars

\* The number of places where consecutive keys differ.
Changes(keys) == Cardinality({i \in 1..(Len(keys) - 1) : keys[i] # keys[i + 1]})

\* The maximal runs of equal keys, as sequences of the positions they hold.
RECURSIVE Runs(_, _)
Runs(keys, i) ==
    IF i > Len(keys) THEN <<>>
    ELSE LET rest == Runs(keys, i + 1)
         IN  IF rest # <<>> /\ keys[i] = keys[i + 1]
             THEN <<(<<i>> \o Head(rest))>> \o Tail(rest)
             ELSE <<(<<i>>)>> \o rest

gcOnly == <<rtVars, guVars, maskVars, sceneVars, fr, tf, bp, tgc, renderer>>

\* The history an operation of the GC or of the scheduler starts from.
Noted(p) ==
    [p EXCEPT !.before = p.tasks, !.wasOff = ~p.wanted, !.cancelled = 0,
              !.invoked = <<>>]

GcSetEnabled ==
    \E e \in BOOLEAN :
        /\ ~rgc.destroyed
        /\ rgc' = [GC_setEnabled(Noted(rgc), e) EXCEPT !.wanted = e]
        /\ op' = IF e THEN "gc.enable" ELSE "gc.disable"
        /\ UNCHANGED gcOnly

GcDestroy ==
    /\ ~rgc.destroyed
    /\ rgc' = [GC_destroy(Noted(rgc)) EXCEPT !.wanted = FALSE]
    /\ op' = "gc.destroy"
    /\ UNCHANGED gcOnly

\* init(options): enabled = options.renderableGCActive
GcInit ==
    \E e \in BOOLEAN :
        /\ rgc.handler = 0
        /\ rgc.frames = 0
        /\ rgc' = [GC_setEnabled(Noted(rgc), e) EXCEPT !.wanted = e]
        /\ op' = "gc.init"
        /\ UNCHANGED gcOnly

GcTime ==
    /\ rgc.clock < MaxTime
    /\ rgc' = [rgc EXCEPT !.clock = @ + 1]
    /\ op' = "gc.time"
    /\ UNCHANGED gcOnly

GcRender ==
    \E root \in GcRoots :
        /\ rgc.frames < MaxFrames
        /\ rgc' = GC_render(rgc, root)
        /\ op' = "gc.render"
        /\ UNCHANGED gcOnly

GcSweep ==
    /\ \E i \in DOMAIN rgc.tasks : rgc.tasks[i].id = rgc.handler
    /\ rgc' = Sched_update(Noted(rgc), {rgc.handler})
    /\ op' = "gc.run"
    /\ UNCHANGED gcOnly

GcDetach ==
    \E r \in Renderables :
        /\ rgc.renderables[r].renderGroup # 0
        /\ rgc' = [rgc EXCEPT
                     !.renderables[r].renderGroup = 0,
                     !.groups[rgc.renderables[r].renderGroup].structureDidChange = TRUE]
        /\ op' = "gc.detach"
        /\ UNCHANGED gcOnly

GcAppDestroy ==
    \E r \in Renderables :
        /\ ~rgc.renderables[r].destroyed
        /\ rgc.renderables[r].renderGroup = 0
        /\ rgc' = [(IF rgc.renderables[r].subscribed
                    THEN GC_removeRenderable(rgc, r) ELSE rgc)
                      EXCEPT !.renderables[r].destroyed = TRUE,
                             !.renderables[r].gpu = FALSE]
        /\ op' = "gc.appDestroy"
        /\ UNCHANGED gcOnly

NextGC == GcInit \/ GcTime \/ GcRender \/ GcSweep \/ GcDetach \/ GcAppDestroy

SpecGC == Init /\ [][NextGC]_vars

\* C17: a renderable whose render group is in every frame rendered is not
\* destroyed by a sweep, whenever the sweeps run and whether its group is
\* the root rendered or a group nested in it.
C17_RenderedNeverDestroyed ==
    \A r \in Renderables :
        (rgc.frames > 0 /\ ~rgc.renderables[r].skipped) => r \notin rgc.swept

\* C18: a sweep destroys, through the pipe, every tracked renderable that
\* was idle for longer than maxUnusedTime and whose render group is not in
\* the frame last rendered; it leaves the list, its listener is removed and
\* its _lastUsed is -1.
C18_IdleDestroyedOnSweep ==
    op = "gc.run" =>
        \A a \in rgc.due :
            /\ a \in rgc.swept
            /\ \A i \in DOMAIN rgc.managedRenderables : rgc.managedRenderables[i] # a
            /\ ~rgc.renderables[a].subscribed
            /\ rgc.renderables[a].lastUsed = -1

(***************************************************************************)
(* Specification of the scheduler with the renderable GC among its users:  *)
(* the GC is enabled, disabled and destroyed, other systems add and cancel *)
(* tasks, and updates call the tasks that are due.                         *)
(***************************************************************************)
SchedRepeat ==
    /\ rgc.uid <= MaxTasks
    /\ rgc' = Sched_repeat(Noted(rgc), "other")
    /\ op' = "sched.repeat"
    /\ UNCHANGED gcOnly

SchedCancel ==
    \E id \in 1..MaxTasks :
        /\ id \notin {rgc.handler, rgc.hashHandler, rgc.arrayHandler}
        /\ rgc' = [Sched_cancel(Noted(rgc), id) EXCEPT !.cancelled = id]
        /\ op' = "sched.cancel"
        /\ UNCHANGED gcOnly

SchedUpdate ==
    \E isDue \in SUBSET {rgc.tasks[i].id : i \in DOMAIN rgc.tasks} :
        /\ rgc' = Sched_update(Noted(rgc), isDue)
        /\ op' = "sched.update"
        /\ UNCHANGED gcOnly

NextSched == GcSetEnabled \/ GcDestroy \/ SchedRepeat \/ SchedCancel \/ SchedUpdate

SpecSched == Init /\ [][NextSched]_vars

\* The ids of the three tasks of the renderable GC.
GcTaskIds == {rgc.handler, rgc.hashHandler, rgc.arrayHandler} \ {0}

\* The tasks of s whose id is not in ids, in order.
Without(s, ids) == SelectSeq(s, LAMBDA x : x.id \notin ids)

\* C19: once the renderable GC is disabled none of its three tasks is
\* scheduled, the other tasks being kept; disabling again, or destroy()
\* after disabling, leaves the scheduler as it is; cancel of an id that is
\* not scheduled removes nothing, cancel of a scheduled id removes that
\* task alone; and no update of the scheduler calls a task of the GC while
\* it is disabled.
C19_DisableCancelsTasks ==
    /\ ~rgc.wanted =>
          \A i \in DOMAIN rgc.tasks : rgc.tasks[i].id \notin GcTaskIds
    /\ op \in {"gc.disable", "gc.destroy"} =>
          rgc.tasks = Without(rgc.before, GcTaskIds)
    /\ (op \in {"gc.disable", "gc.destroy"} /\ rgc.wasOff) =>
          rgc.tasks = rgc.before
    /\ op = "sched.cancel" =>
          /\ rgc.tasks = Without(rgc.before, {rgc.cancelled})
          /\ (\A i \in DOMAIN rgc.before : rgc.before[i].id # rgc.cancelled) =>
                rgc.tasks = rgc.before
    /\ (op = "sched.update" /\ ~rgc.wanted) =>
          \A i \in DOMAIN rgc.invoked : rgc.invoked[i] = "other"

\* The GC disabled a second time, after it was enabled, next to a task of
\* another system that stays scheduled.
C19_Witness ==
    /\ op = "gc.disable"
    /\ rgc.wasOff
    /\ rgc.handler # 0
    /\ rgc.tasks # <<>>
    /\ rgc.uid > 4

(***************************************************************************)
(* Specification of the texture GC: frames to the screen or to a texture,  *)
(* with the GC switched on and off.                                        *)
(***************************************************************************)
tgOnly == <<rtVars, guVars, maskVars, sceneVars, fr, tf, bp, rgc, renderer>>

TgRender ==
    \E toScreen \in BOOLEAN :
        /\ tgc.count < MaxCount
        /\ tgc.count + tgc.runs + tgc.screenFrames < 3 * MaxCount
        /\ tgc' = TG_render(tgc, toScreen)
        /\ op' = "tg.render"
        /\ UNCHANGED tgOnly

TgSetActive ==
    \E b \in BOOLEAN :
        /\ tgc' = TG_setActive(tgc, b)
        /\ op' = "tg.active"
        /\ UNCHANGED tgOnly

NextTexGC == TgRender \/ TgSetActive

SpecTexGC == Init /\ [][NextTexGC]_vars

\* C20: count is the number of frames rendered to the screen; a frame
\* rendered to a texture, or rendered with the GC inactive, runs no sweep;
\* with the GC active throughout, a sweep runs on every
\* textureGCCheckCountMax-th counted frame and on no other.
C20_SweepEveryNthScreenFrame ==
    /\ tgc.count = tgc.screenFrames
    /\ op = "tg.render" =>
          /\ ~tgc.renderingToScreen => ~tgc.ran
          /\ ~tgc.active => ~tgc.ran
          /\ (tgc.alwaysActive /\ tgc.renderingToScreen) =>
                (tgc.ran <=> tgc.count % CheckCountMax = 0)

(***************************************************************************)
(* Specification of the texture sweep: textures are bound in some frames,  *)
(* frames are counted, sweeps run from postrender or are called directly.  *)
(***************************************************************************)
TgTouch ==
    \E x \in ManagedTextures :
        /\ tgc' = [TG_touch(tgc, x) EXCEPT !.ran = FALSE]
        /\ op' = "tg.touch"
        /\ UNCHANGED tgOnly

TgRun ==
    /\ tgc' = [TG_run(tgc) EXCEPT !.ran = TRUE]
    /\ op' = "tg.run"
    /\ UNCHANGED tgOnly

NextTexSweep == TgTouch \/ TgRender \/ TgRun

SpecTexSweep == Init /\ [][NextTexSweep]_vars

\* C21: a sweep unloads exactly the managed textures with
\* autoGarbageCollect, a resource, a stamp above -1 and more than maxIdle
\* counted frames since the stamp; each of them is stamped -1 and is not
\* unloaded again before it is used again; a texture without GPU texture is
\* passed over; and every texture stays in managedTextures.
C21_SweepUnloadsIdleTextures ==
    /\ tgc.ran =>
          /\ tgc.unloaded = tgc.eligible
          /\ \A x \in tgc.unloaded :
                tgc.textures[x].touched = -1 /\ ~tgc.textures[x].gpu
    /\ \A x \in ManagedTextures : tgc.textures[x].unloads <= 1
    /\ tgc.managedTextures = <<1, 2, 3>>

\* A sweep that unloads the first texture and leaves the second, idle as
\* long but without autoGarbageCollect, loaded.
C21_Witness ==
    /\ tgc.ran
    /\ tgc.unloaded = {1}
    /\ tgc.textures[2].gpu
    /\ tgc.textures[2].touched > -1
    /\ tgc.count - tgc.textures[2].touched > MaxIdle

(***************************************************************************)
(* Specification of the render-target caches: surfaces are looked up, GPU  *)
(* targets are asked for, sources are destroyed.                           *)
(***************************************************************************)
rendererOnly == <<rtVars, guVars, maskVars, sceneVars, fr, tf, bp, rgc, tgc>>

RtcGet ==
    \E e \in Surfaces :
        /\ ~renderer.renderTarget.sourceDestroyed[e.source]
        /\ Len(renderer.renderTarget.made) < MaxTargets
        /\ renderer' = [renderer EXCEPT
                          !.renderTarget = RTC_getRenderTarget(@, e)]
        /\ op' = IF e.isTexture THEN "rtc.getTexture" ELSE "rtc.getCanvas"
        /\ UNCHANGED rendererOnly

RtcGetGpu ==
    \E i \in DOMAIN renderer.renderTarget.made :
        /\ renderer.renderTarget.made[i].destroys = 0
        /\ renderer' = [renderer EXCEPT
                          !.renderTarget = RTC_getGpuRenderTarget(@, i)]
        /\ op' = "rtc.getGpu"
        /\ UNCHANGED rendererOnly

RtcDestroySource ==
    \E s \in Sources :
        /\ ~renderer.renderTarget.sourceDestroyed[s]
        /\ renderer' = [renderer EXCEPT
                          !.renderTarget =
                              RTC_emitDestroy(@, s, @.listeners[s])]
        /\ op' = "rtc.destroySource"
        /\ UNCHANGED rendererOnly

NextTargets == RtcGet \/ RtcGetGpu \/ RtcDestroySource

SpecTargets == Init /\ [][NextTargets]_vars

\* The render targets made for source s.
TargetsOf(s) ==
    {i \in DOMAIN renderer.renderTarget.made :
        renderer.renderTarget.made[i].source = s}

\* C22: getRenderTarget returns the one render target of the source of the
\* surface; at most one render target is made per source and at most one
\* GPU target per render target; when the source is destroyed each is
\* destroyed exactly once and neither cache holds them any longer.
C22_OneTargetPerSource ==
    LET c == renderer.renderTarget
    IN  \A s \in Sources :
           /\ Cardinality(TargetsOf(s)) <= 1
           /\ \A i \in TargetsOf(s) :
                 /\ c.made[i].gpuMade <= 1
                 /\ c.sourceDestroyed[s] =>
                       /\ c.made[i].destroys = 1
                       /\ c.made[i].gpuDestroys = c.made[i].gpuMade
                       /\ c.gpuRenderTargetHash[i] # "made"
                 /\ ~c.sourceDestroyed[s] => c.made[i].destroys = 0
           /\ c.sourceDestroyed[s] => c.renderSurfaceToRenderTargetHash[s] = 0
           /\ (op = "rtc.getTexture" /\ c.made[c.returned].source = s) =>
                 c.returned = c.renderSurfaceToRenderTargetHash[s]

(***************************************************************************)
(* Specification of the registration of systems: init adds the systems of  *)
(* the configuration one by one until one throws or all are added;         *)
(* frames are rendered afterwards.                                         *)
(***************************************************************************)
RegAddSystem ==
    \E cls \in SystemClasses, r \in SystemNames :
        /\ renderer.registry.phase \in {"constructed", "init"}
        /\ Len(renderer.registry.instances) < MaxSystems
        /\ renderer' = [renderer EXCEPT
                          !.registry = REG_addSystem(
                              [REG_noted(@) EXCEPT !.phase = "init", !.asked = r],
                              cls, r)]
        /\ op' = "reg.addSystem"
        /\ UNCHANGED rendererOnly

RegInitDone ==
    /\ renderer.registry.phase = "init"
    /\ renderer' = [renderer EXCEPT
                      !.registry = [REG_noted(@) EXCEPT !.phase = "ready"]]
    /\ op' = "reg.initDone"
    /\ UNCHANGED rendererOnly

RegRender ==
    /\ renderer.registry.phase \in {"ready", "failed"}
    /\ renderer' = [renderer EXCEPT !.registry = REG_render(REG_noted(@))]
    /\ op' = "reg.render"
    /\ UNCHANGED rendererOnly

NextRegistry == RegAddSystem \/ RegInitDone \/ RegRender

SpecRegistry == Init /\ [][NextRegistry]_vars

\* C23: adding a system under a name already in use throws, in init and
\* never in render; the system registered under the name before stays
\* registered, and no runner gains the instance that was rejected.
C23_DuplicateNameRejected ==
    LET g == renderer.registry
    IN  /\ op = "reg.addSystem" =>
              IF g.before.systems[g.asked] # 0
              THEN g.thrown /\ g.phase = "failed"
              ELSE ~g.thrown /\ g.systems[g.asked] = Len(g.instances)
        /\ (op = "reg.addSystem" /\ g.thrown) =>
              /\ g.systems = g.before.systems
              /\ g.systemsHash = g.before.systems
              /\ g.runners = g.before.runners
        /\ op = "reg.render" => g.thrown = g.before.thrown
        /\ \A i \in RunnerNames : \A k \in DOMAIN g.runners[i] :
              \E r \in SystemNames : g.systems[r] = g.runners[i][k]

\* A second system rejected under the name of the first, which stays
\* registered and in its runners, and a frame rendered afterwards.
C23_Witness ==
    LET g == renderer.registry
    IN  /\ op = "reg.render"
        /\ g.thrown
        /\ Len(g.instances) = 2
        /\ \E r \in SystemNames : g.systems[r] = 1
        /\ g.emitted = <<1>>

(***************************************************************************)
(* Specification of the render of one container: the application moves    *)
(* it and puts it under a parent or takes it off; it is rendered directly, *)
(* through the renderer, or into a texture.                                *)
(***************************************************************************)
RcSetTransform ==
    \E v \in {Identity, Doubled, Shifted} :
        /\ renderer' = [renderer EXCEPT !.container.localTransform = v]
        /\ op' = "rc.setTransform"
        /\ UNCHANGED rendererOnly

RcSetParent ==
    \E p \in 0..1, g \in 0..1 :
        /\ renderer' = [renderer EXCEPT !.container.parent = p,
                                        !.container.renderGroupParent = g]
        /\ op' = "rc.setParent"
        /\ UNCHANGED rendererOnly

RcRender ==
    \E t \in {NoTransform, Doubled, Shifted} :
        /\ renderer' = [renderer EXCEPT !.container = RC_render(RC_noted(@), t)]
        /\ op' = IF t = NoTransform THEN "rc.render" ELSE "rc.renderWith"
        /\ UNCHANGED rendererOnly

RcRendererRender ==
    \E t \in {NoTransform, Doubled} :
        /\ renderer' = [renderer EXCEPT
                          !.container = RC_rendererRender(RC_noted(@), t)]
        /\ op' = "rc.rendererRender"
        /\ UNCHANGED rendererOnly

RcGenerateTexture ==
    \E u \in Translations :
        /\ renderer' = [renderer EXCEPT
                          !.container = RC_generateTexture(RC_noted(@), u)]
        /\ op' = "rc.generateTexture"
        /\ UNCHANGED rendererOnly

NextContainer ==
    RcSetTransform \/ RcSetParent \/ RcRender \/ RcRendererRender \/ RcGenerateTexture

SpecContainer == Init /\ [][NextContainer]_vars

RenderOps == {"rc.render", "rc.renderWith", "rc.rendererRender", "rc.generateTexture"}

\* C24: after render, and so after generateTexture, the parent of the
\* container, the parent group of its render group and its local
\* transform are what they were before the call, with a transform and
\* without, and for a container under a parent; while it renders the
\* container has no parent and no parent group.
C24_RenderRestoresContainer ==
    LET c == renderer.container
    IN  op \in RenderOps =>
           /\ c.parent = c.before.parent
           /\ c.renderGroupParent = c.before.renderGroupParent
           /\ c.localTransform = c.before.localTransform
           /\ c.during.parent = 0
           /\ c.during.renderGroupParent = 0

\* A texture generated from a container under a parent and in a parent
\* group, with a translation that is not its local transform.
C24_Witness ==
    LET c == renderer.container
    IN  /\ op = "rc.generateTexture"
        /\ c.parent = 1
        /\ c.renderGroupParent = 1
        /\ c.localTransform = Doubled
        /\ c.during.localTransform = <<1, -1>>

(***************************************************************************)
(* Specification of the cached render groups: caching is switched on and   *)
(* off, contents change, frames are rendered.                              *)
(***************************************************************************)
CgEnable ==
    \E g \in CachedGroups :
        /\ ~renderer.cache.groups[g].isCachedAsTexture
        /\ renderer' = [renderer EXCEPT !.cache = CG_enable(@, g)]
        /\ op' = "cg.enable"
        /\ UNCHANGED rendererOnly

CgUpdate ==
    \E g \in CachedGroups, s \in Sizes :
        /\ renderer.cache.groups[g].isCachedAsTexture
        /\ renderer' = [renderer EXCEPT !.cache = CG_update(@, g, s)]
        /\ op' = "cg.update"
        /\ UNCHANGED rendererOnly

CgDisable ==
    \E g \in CachedGroups, atOnce \in BOOLEAN :
        /\ renderer.cache.groups[g].isCachedAsTexture
        /\ renderer' = [renderer EXCEPT !.cache = CG_disable(@, g, atOnce)]
        /\ op' = "cg.disable"
        /\ UNCHANGED rendererOnly

CgRender ==
    /\ renderer' = [renderer EXCEPT !.cache = CG_render(@)]
    /\ op' = "cg.render"
    /\ UNCHANGED rendererOnly

NextCache == CgEnable \/ CgUpdate \/ CgDisable \/ CgRender

SpecCache == Init /\ [][NextCache]_vars

\* C25: the textures out of the pool are those the groups hold, one per
\* group at most and no texture in two groups; the old texture is back in
\* the pool when the new one is taken; no texture is returned twice; a
\* group with caching off that a render went through holds no texture; and
\* no texture is made for a group that has one of unchanged size.
C25_OneTexturePerCachedGroup ==
    LET c == renderer.cache
        out == {x \in PoolTextures : c.sizeOf[x] # 0 /\ x \notin c.free}
    IN  /\ out = {c.groups[g].texture : g \in CachedGroups} \ {0}
        /\ \A g, h \in CachedGroups :
              (g # h /\ c.groups[g].texture # 0) =>
                  c.groups[g].texture # c.groups[h].texture
        /\ ~c.heldAtGet
        /\ ~c.returnedFree
        /\ ~c.madeForSameSize
        /\ op = "cg.render" =>
              \A g \in c.visited :
                  ~c.groups[g].isCachedAsTexture => c.groups[g].texture = 0

\* A render that gave a cached group a texture of another size, with the
\* earlier one back in the pool, while the other group keeps its own.
C25_Witness ==
    LET c == renderer.cache
    IN  /\ op = "cg.render"
        /\ c.groups[2].texture # 0
        /\ c.groups[1].texture # 0
        /\ c.groups[2].textureBounds = 2
        /\ \E x \in c.free : c.sizeOf[x] = 1

(***************************************************************************)
(* Specification of the blend mode pipe: advanced blend modes are          *)
(* registered and removed, builds set blend modes for what they add.       *)
(***************************************************************************)
BmRegister ==
    \E m \in AdvancedModes :
        /\ renderer' = [renderer EXCEPT !.blend.registered =
                            IF m \in @ THEN @ \ {m} ELSE @ \cup {m}]
        /\ op' = "bm.register"
        /\ UNCHANGED rendererOnly

BmPrerender ==
    /\ renderer' = [renderer EXCEPT !.blend = BM_prerender(@)]
    /\ op' = "bm.prerender"
    /\ UNCHANGED rendererOnly

BmBuildStart ==
    /\ renderer' = [renderer EXCEPT !.blend = BM_buildStart(@)]
    /\ op' = "bm.buildStart"
    /\ UNCHANGED rendererOnly

BmAddToBatch ==
    /\ ~renderer.blend.set.pending
    /\ renderer' = [renderer EXCEPT !.blend.set = Batch_add(@)]
    /\ op' = "bm.add"
    /\ UNCHANGED rendererOnly

BmSetBlendMode ==
    \E e \in BlendSubjects, m \in BlendModes :
        /\ renderer.blend.sets < MaxBlendSets
        /\ renderer' = [renderer EXCEPT !.blend =
                            BM_noted(@, BM_setBlendMode(@, e, m), e, m)]
        /\ op' = "bm.set"
        /\ UNCHANGED rendererOnly

BmBuildEnd ==
    /\ renderer' = [renderer EXCEPT !.blend = BM_buildEnd(@)]
    /\ op' = "bm.buildEnd"
    /\ UNCHANGED rendererOnly

NextBlend ==
    \/ BmRegister \/ BmPrerender \/ BmBuildStart \/ BmAddToBatch
    \/ BmSetBlendMode \/ BmBuildEnd

SpecBlend == Init /\ [][NextBlend]_vars

\* C26: after setBlendMode for a renderable with an advanced blend mode
\* that is not registered, no pushFilter instruction was added, the pipe is
\* not in advanced mode, and a warning was given.
C26_UnregisteredModeWarns ==
    LET b == renderer.blend
    IN  (/\ op = "bm.set"
         /\ b.subject # "none"
         /\ b.asked \in AdvancedModes \ b.registered) =>
            /\ \A i \in (b.sizeBefore + 1)..Len(b.set.instructions) :
                  b.set.instructions[i].action # "pushFilter"
            /\ ~b.isAdvanced
            /\ b.warnings > 0

(***************************************************************************)
(* The colorMask instructions of the build.                                *)
(***************************************************************************)
ColorMaskInstrs(b) ==
    SelectSeq(b.instructions, LAMBDA e : e.renderPipeId = "colorMask")

\* C27: a push or pop of the ColorMaskPipe adds one colorMask instruction,
\* carrying the new effective mask, when the AND of the open colour masks
\* after it differs from the one before it, and adds none when it does not;
\* so no two colorMask instructions in a row of a build carry the same
\* value and the first one does not carry 15.
C27_ColorMaskInstructionOnChange ==
    /\ [][(op' = "colorMask.push" \/ op' = "colorMask.pop") =>
            LET before == ColorMaskInstrs(bld)
                after == ColorMaskInstrs(bld')
            IN  IF AndOfOpen(open') # AndOfOpen(open)
                THEN /\ Len(after) = Len(before) + 1
                     /\ Top(bld'.instructions).renderPipeId = "colorMask"
                     /\ Top(after).colorMask = AndOfOpen(open')
                ELSE bld'.instructions = Batch_break(bld).instructions]_vars
    /\ [](phase = "build" =>
            LET c == ColorMaskInstrs(bld)
            IN  /\ c # <<>> => c[1].colorMask # RGBA
                /\ \A i \in 1..(Len(c) - 1) : c[i].colorMask # c[i + 1].colorMask)

\* A colour mask pushed inside an equal one: the second push added nothing.
C27_Witness ==
    /\ op = "colorMask.push"
    /\ Len(open) = 2
    /\ open[1].kind = "color" /\ open[2].kind = "color"
    /\ open[1].mask = open[2].mask
    /\ Len(ColorMaskInstrs(bld)) = 1

(***************************************************************************)
(* The instructions executed so far that lie inside the drawing of a       *)
(* stencil mask: after a pushMaskBegin or popMaskBegin with no pushMaskEnd *)
(* or popMaskEnd since.                                                    *)
(***************************************************************************)
IsStencil(e, actions) == e.renderPipeId = "stencilMask" /\ e.action \in actions

DrawingMask(k) ==
    \E i \in 1..k :
        /\ IsStencil(bld.instructions[i], {"pushMaskBegin", "popMaskBegin"})
        /\ \A j \in (i + 1)..k :
              ~IsStencil(bld.instructions[j], {"pushMaskEnd", "popMaskEnd"})

\* C28: in execution, pushMaskBegin sets RENDERING_MASK_ADD with the count
\* before its increment and colour mask 0, pushMaskEnd the comparison with
\* the count after it and colour mask 15, popMaskBegin colour mask 0 and
\* RENDERING_MASK_REMOVE, popMaskEnd colour mask 15; the colour mask is 0
\* after every instruction from a begin up to its end; and the bound target
\* has a stencil attachment after each of the four.
C28_StencilExecutionOrder ==
    (phase = "execute" /\ pc > 0) =>
        LET e == bld.instructions[pc]
            i == Count(sm.maskStackHash, rt.renderTarget.source)
        IN  /\ IsStencil(e, {"pushMaskBegin"}) =>
                  /\ gpu.stencilMode = "RENDERING_MASK_ADD"
                  /\ gpu.stencilRef = i - 1
                  /\ gpu.colorMask = 0
            /\ IsStencil(e, {"pushMaskEnd"}) =>
                  /\ gpu.stencilMode = SM_activeMode(e)
                  /\ gpu.stencilRef = i
                  /\ gpu.colorMask = RGBA
            /\ IsStencil(e, {"popMaskBegin"}) =>
                  /\ gpu.stencilMode = "RENDERING_MASK_REMOVE"
                  /\ gpu.colorMask = 0
            /\ IsStencil(e, {"popMaskEnd"}) => gpu.colorMask = RGBA
            /\ DrawingMask(pc) => gpu.colorMask = 0
            /\ e.renderPipeId = "stencilMask" =>
                  rt.renderTarget.source \in rt.stencil

\* The geometry of a stencil mask nested in another has just been drawn,
\* between its pushMaskBegin and pushMaskEnd.
C28_Witness ==
    /\ phase = "execute" /\ pc > 1
    /\ bld.instructions[pc].renderPipeId = "batch"
    /\ IsStencil(bld.instructions[pc - 1], {"pushMaskBegin"})
    /\ Count(sm.maskStackHash, rt.renderTarget.source) = 2
    /\ gpu.colorMask = 0

(***************************************************************************)
(* Specification of builds in which a stencil mask effect is pushed more   *)
(* than once and a mask holds more than one batch of geometry.             *)
(***************************************************************************)
MaskExtras == {<<>>, <<Instr("mesh", "execute", FALSE, 0, FALSE)>>}

OpenStencilMasks == {open[i].mask : i \in {j \in DOMAIN open : open[j].kind = "stencil"}}

BuildStencilPushOf ==
    \E inverse \in BOOLEAN, extra \in MaskExtras,
       mask \in (DOMAIN sm.maskHash \cup {pushes + 1}) \ OpenStencilMasks :
        /\ CanPush
        /\ bld' = SM_pushInstrOf(bld, inverse, extra)
        /\ sm' = SM_pushOf(sm, bld, mask, rt.renderTarget.source, extra)
        /\ open' = Append(open, OpenEntry("stencil", mask, inverse, FALSE))
        /\ pushes' = pushes + 1
        /\ op' = "stencilMask.push"
        /\ UNCHANGED <<scene, laterVars, rtVars, guVars, cm, am, gpu, phase, pc, exec, expect>>

NextStencilBuild == NextMask \/ BuildStencilPushOf

SpecStencilBuild == Init /\ [][NextStencilBuild]_vars

\* The place of the pushMaskEnd that the pop ending before place k + 1
\* answers: the nearest one before it not answered by a later popMaskEnd.
RECURSIVE MatchingEnd(_, _, _)
MatchingEnd(ins, k, d) ==
    IF k = 0 THEN 0
    ELSE IF IsStencil(ins[k], {"popMaskEnd"}) THEN MatchingEnd(ins, k - 1, d + 1)
    ELSE IF IsStencil(ins[k], {"pushMaskEnd"})
         THEN IF d = 0 THEN k ELSE MatchingEnd(ins, k - 1, d - 1)
         ELSE MatchingEnd(ins, k - 1, d)

LastPlace(ins, k, actions) ==
    LET S == {0} \cup {i \in 1..k : IsStencil(ins[i], actions)}
    IN  CHOOSE i \in S : \A j \in S : j <= i

\* C29: after a pop of the StencilMaskPipe the build ends with popMaskBegin,
\* the instructions between the pushMaskBegin and the pushMaskEnd of the
\* push it answers, in their order, and popMaskEnd.
C29_PopRepeatsMaskInstructions ==
    op = "stencilMask.pop" =>
        LET ins == bld.instructions
            n == Len(ins)
            p == LastPlace(ins, n, {"popMaskBegin"})
            e == MatchingEnd(ins, p - 1, 0)
            b == LastPlace(ins, e, {"pushMaskBegin"})
        IN  /\ IsStencil(ins[n], {"popMaskEnd"})
            /\ p > 0 /\ e > 0 /\ b > 0
            /\ SubSeq(ins, p + 1, n - 1) = SubSeq(ins, b + 1, e - 1)

\* The second pop of one effect in a build, of a mask of two instructions,
\* inside another stencil mask.
C29_Witness ==
    /\ op = "stencilMask.pop"
    /\ Len(open) = 1 /\ open[1].kind = "stencil"
    /\ Len(SelectSeq(bld.instructions,
                     LAMBDA x : IsStencil(x, {"popMaskEnd"}))) = 2
    /\ pushes = 3
    /\ Cardinality(DOMAIN sm.maskHash) = 2
    /\ bld.instructions[Len(bld.instructions) - 1].renderPipeId = "mesh"

(***************************************************************************)
(* Specification of builds with geometry between the mask effects: the     *)
(* builder adds batched geometry to the open batch at any time.            *)
(***************************************************************************)
BuildAddToBatch ==
    /\ phase = "build"
    /\ ~bld.pending
    /\ Len(SelectSeq(bld.instructions, LAMBDA e : e.renderPipeId = "batch"))
           < MaxGeometry
    /\ bld' = Batch_add(bld)
    /\ op' = "batch.addToBatch"
    /\ UNCHANGED <<scene, laterVars, rtVars, guVars, cm, sm, am, gpu, phase, pc, open, pushes, exec, expect>>

NextMaskGeometry == NextMask \/ BuildAddToBatch

SpecMaskGeometry == Init /\ [][NextMaskGeometry]_vars

MaskBuildOps ==
    {"colorMask.push", "colorMask.pop", "stencilMask.push", "stencilMask.pop",
     "alphaMask.push", "alphaMask.pushEnd", "alphaMask.pop"}

\* C30: a push or pop of a mask pipe only appends to the instruction set;
\* geometry waiting in the batch becomes a batch instruction that comes
\* first among what is appended, and with no geometry waiting nothing
\* appended starts with a batch instruction; no geometry waits in the batch
\* afterwards, so that what is added later is emitted later; and adding
\* geometry emits nothing by itself.
C30_MaskBreaksBatch ==
    /\ [][op' \in MaskBuildOps =>
            LET n == Len(bld.instructions)
                ins == bld'.instructions
            IN  /\ Len(ins) >= n
                /\ SubSeq(ins, 1, n) = bld.instructions
                /\ ~bld'.pending
                /\ IF bld.pending
                   THEN /\ Len(ins) > n
                        /\ ins[n + 1].renderPipeId = "batch"
                        /\ (op' # "alphaMask.pushEnd" /\ Len(ins) > n + 1) =>
                               ins[n + 2].renderPipeId # "batch"
                   ELSE (op' # "alphaMask.pushEnd" /\ Len(ins) > n) =>
                               ins[n + 1].renderPipeId # "batch"]_vars
    /\ [][op' = "batch.addToBatch" =>
            (bld'.instructions = bld.instructions /\ bld'.pending)]_vars

\* Geometry, a colour mask pushed, geometry, the colour mask popped: two
\* batch instructions, each before the colorMask instruction that followed.
C30_Witness ==
    /\ op = "colorMask.pop"
    /\ Len(bld.instructions) = 4
    /\ bld.instructions[1].renderPipeId = "batch"
    /\ bld.instructions[2].renderPipeId = "colorMask"
    /\ bld.instructions[3].renderPipeId = "batch"
    /\ bld.instructions[4].renderPipeId = "colorMask"

(***************************************************************************)
(* Specification of the propagation of colour, blend mode and visibility:  *)
(* the application sets them on containers and moves the sprite, frames    *)
(* are rendered.  nodesBefore keeps the containers as they were when the   *)
(* last render began.                                                      *)
(***************************************************************************)
BlendChoices == {"inherit", "add"}
AlphaChoices == {AlphaOne, 500}
\* The containers the application changes: the child of the rendered
\* container, above the nested render group, and the sprite; the alpha of
\* the first and the visibility of the second.
Changed == {2, Sprite}

TfSetBlendMode ==
    \E n \in Changed : \E m \in BlendChoices :
        /\ m # tf.nodes[n].localBlendMode
        /\ tf' = setBlendMode(Unpassed(tf), n, m)
        /\ Queueable(tf')
        /\ renderer' = [renderer EXCEPT !.nodesBefore = TF_Init.nodes]
        /\ op' = "tf.set"
        /\ UNCHANGED <<rtVars, guVars, maskVars, sceneVars, fr, bp, rgc, tgc>>

TfSetVisible ==
    \E n \in {Sprite} : \E v \in BOOLEAN :
        /\ (IF v THEN Displayed ELSE Hidden) # tf.nodes[n].localDisplayStatus
        /\ tf' = setVisible(Unpassed(tf), n, v)
        /\ Queueable(tf')
        /\ renderer' = [renderer EXCEPT !.nodesBefore = TF_Init.nodes]
        /\ op' = "tf.set"
        /\ UNCHANGED <<rtVars, guVars, maskVars, sceneVars, fr, bp, rgc, tgc>>

TfSetAlphaNoted ==
    \E n \in {2} : \E a \in AlphaChoices :
        /\ a # tf.nodes[n].localAlpha
        /\ tf' = setAlpha(Unpassed(tf), n, a)
        /\ Queueable(tf')
        /\ renderer' = [renderer EXCEPT !.nodesBefore = TF_Init.nodes]
        /\ op' = "tf.set"
        /\ UNCHANGED <<rtVars, guVars, maskVars, sceneVars, fr, bp, rgc, tgc>>

TfMoveNoted ==
    \E p \in 0..3 :
        /\ p # tf.nodes[Sprite].parent
        /\ LET a == Unpassed(tf)
               b == IF a.nodes[Sprite].parent # 0 THEN removeChild(a, Sprite) ELSE a
           IN  tf' = IF p # 0 THEN addChild(b, p, Sprite) ELSE b
        /\ Queueable(tf')
        /\ renderer' = [renderer EXCEPT !.nodesBefore = TF_Init.nodes]
        /\ op' = "tf.move"
        /\ UNCHANGED <<rtVars, guVars, maskVars, sceneVars, fr, bp, rgc, tgc>>

TfRenderNoted ==
    /\ \A g \in TGroups : tf.groups[g].updateTick < MaxTicks
    /\ tf' = TF_updateRenderGroups([Settled(tf) EXCEPT !.changes = 0], 1)
    /\ renderer' = [renderer EXCEPT !.nodesBefore = tf.nodes]
    /\ op' = "tf.renderNoted"
    /\ UNCHANGED <<rtVars, guVars, maskVars, sceneVars, fr, bp, rgc, tgc>>

NextFlags ==
    \/ TfSetAlphaNoted \/ TfSetBlendMode \/ TfSetVisible \/ TfMoveNoted
    \/ TfRenderNoted

SpecFlags == Init /\ [][NextFlags]_vars

\* The containers the passes of the last render recomputed.
VisitedNodes ==
    UNION {{tf.passes[i].visited[j] : j \in DOMAIN tf.passes[i].visited} :
              i \in DOMAIN tf.passes}

\* The parent of n inside its render group, 0 when n is at the top of it.
InnerParent(n) ==
    LET s == tf.nodes[n].parent
    IN  IF s # 0 /\ ~IsGroupRoot(s) THEN s ELSE 0

\* The flags in force for a recomputed container: the flags it had when
\* the render began, with those in force for its parent when the parent is
\* inside the same render group and was recomputed too.
RECURSIVE FlagsInForce(_)
FlagsInForce(n) ==
    renderer.nodesBefore[n].updateFlags \cup
        (IF InnerParent(n) # 0 /\ InnerParent(n) \in VisitedNodes
         THEN FlagsInForce(InnerParent(n)) ELSE {})

\* What a recomputed container inherits from: its parent inside the render
\* group, Et at the top of it.
Inherited(n) == IF InnerParent(n) # 0 THEN tf.nodes[InnerParent(n)] ELSE Et

\* C31: after a render, each container a pass recomputed has its group
\* alpha, group blend mode and global display status recomputed from its
\* local value and its parent's when the flag of the attribute was in force
\* for it, and as they were before when not; 'inherit' gives the blend mode
\* of the parent; and its flags are empty.
C31_RecomputedUnderFlag ==
    op = "tf.renderNoted" =>
        \A n \in VisitedNodes :
            LET f == FlagsInForce(n)
                was == renderer.nodesBefore[n]
                now == tf.nodes[n]
                e == Inherited(n)
            IN  /\ now.groupAlpha =
                      IF "color" \in f
                      THEN Clamp(Times(now.localAlpha, e.groupAlpha))
                      ELSE was.groupAlpha
                /\ now.groupBlendMode =
                      IF "blend" \in f
                      THEN (IF now.localBlendMode = "inherit"
                            THEN e.groupBlendMode ELSE now.localBlendMode)
                      ELSE was.groupBlendMode
                /\ now.globalDisplayStatus =
                      IF "visible" \in f
                      THEN BitAnd(now.localDisplayStatus, e.globalDisplayStatus)
                      ELSE was.globalDisplayStatus
                /\ now.updateFlags = {}

\* A render recomputed the sprite under container 2: the blend mode set on
\* 2 reached the sprite, whose own flags were empty, and the alpha of the
\* sprite stayed as it was.
C31_Witness ==
    /\ op = "tf.renderNoted"
    /\ Sprite \in VisitedNodes /\ 2 \in VisitedNodes
    /\ tf.nodes[Sprite].parent = 2
    /\ renderer.nodesBefore[Sprite].updateFlags = {}
    /\ renderer.nodesBefore[2].updateFlags = {"blend"}
    /\ tf.nodes[Sprite].groupBlendMode = "add"
    /\ renderer.nodesBefore[Sprite].groupBlendMode = "normal"

(***************************************************************************)
(* Specification of the propagation at the boundaries of render groups:    *)
(* the application moves the roots of the two render groups and the       *)
(* sprite and sets the alpha of container 2, frames are rendered.          *)
(***************************************************************************)
TfSetTransformNoted ==
    \E n \in {1, 3} : \E v \in Locals(n) :
        /\ v # tf.nodes[n].localTransform
        /\ tf' = setTransform(Unpassed(tf), n, v)
        /\ Queueable(tf')
        /\ renderer' = [renderer EXCEPT !.nodesBefore = TF_Init.nodes]
        /\ op' = "tf.set"
        /\ UNCHANGED <<rtVars, guVars, maskVars, sceneVars, fr, bp, rgc, tgc>>

NextBoundary ==
    TfSetTransformNoted \/ TfSetAlphaNoted \/ TfMoveNoted \/ TfRenderNoted

SpecBoundary == Init /\ [][NextBoundary]_vars

\* C32: after a render, the world transform and alpha of every render
\* group are those of its root (joined with the parent group's when it has
\* one); a recomputed container at the top of a render group has its
\* relative transform equal to its local transform and its group alpha
\* recomputed, from its local alpha alone, exactly when its own colour flag
\* was set; and every container a pass recomputed belongs to the group of
\* the pass, so no pass went below the root of a nested group.
C32_BoundaryRecomputedAlone ==
    op = "tf.renderNoted" =>
        /\ \A g \in TGroups :
              LET e == tf.nodes[g]
                  r == GroupParent(tf, g)
              IN  /\ tf.groups[g].worldTransform =
                        IF r # 0
                        THEN appendFrom(e.relativeGroupTransform,
                                        tf.groups[r].worldTransform)
                        ELSE e.localTransform
                  /\ tf.groups[g].worldAlpha =
                        Clamp(IF r # 0
                              THEN Times(e.groupAlpha, tf.groups[r].worldAlpha)
                              ELSE e.localAlpha)
        /\ \A n \in VisitedNodes :
              InnerParent(n) = 0 =>
                  /\ tf.nodes[n].relativeGroupTransform = tf.nodes[n].localTransform
                  /\ tf.nodes[n].groupAlpha =
                        IF "color" \in renderer.nodesBefore[n].updateFlags
                        THEN Clamp(tf.nodes[n].localAlpha)
                        ELSE renderer.nodesBefore[n].groupAlpha
        /\ \A i \in DOMAIN tf.passes :
              \A j \in DOMAIN tf.passes[i].visited :
                  tf.nodes[tf.passes[i].visited[j]].parentRenderGroup
                      = tf.passes[i].group

\* A render in which the pass of the top group recomputed the root of the
\* nested group, moved under a container with half alpha, and the sprite
\* inside the nested group was not recomputed.
C32_Witness ==
    /\ op = "tf.renderNoted"
    /\ 3 \in VisitedNodes
    /\ tf.nodes[Sprite].parent = 3
    /\ Sprite \notin VisitedNodes
    /\ tf.nodes[2].groupAlpha = 500
    /\ tf.nodes[3].localTransform = Shifted
    /\ tf.groups[3].worldAlpha = 500
    /\ tf.nodes[Sprite].groupAlpha = AlphaOne

(***************************************************************************)
(* The entries of the buckets and the containers they stand for.           *)
(***************************************************************************)
SeqRange(s) == {s[i] : i \in DOMAIN s}

\* C33: in every pass over a group G, a recomputed container belongs to G
\* and was reached through an entry at its own depth or through its
\* recomputed parent, so an entry left behind at another depth or in
\* another group recomputes nothing; no container is recomputed twice in a
\* pass; and after a frame no container attached to a render group is
\* still waiting with didChange set.
C33_StaleEntriesSkipped ==
    /\ \A k \in DOMAIN tf.passes :
          LET p == tf.passes[k]
          IN  \A j \in DOMAIN p.visited :
                 LET n == p.visited[j]
                 IN  /\ tf.nodes[n].parentRenderGroup = p.group
                     /\ \/ <<tf.nodes[n].relativeRenderGroupDepth, n>>
                               \in SeqRange(p.registered)
                        \/ InnerParent(n) \in SeqRange(SubSeq(p.visited, 1, j - 1))
                     /\ n \notin SeqRange(SubSeq(p.visited, 1, j - 1))
    /\ op = "tf.render" =>
          \A n \in TNodes :
              tf.nodes[n].parentRenderGroup # 0 => ~tf.nodes[n].didChange

\* A frame in which the pass over the top group found an entry the sprite
\* had left behind and skipped it, and the pass over the nested group, to
\* which the sprite had moved, recomputed it.
C33_Witness ==
    /\ op = "tf.render"
    /\ Len(tf.passes) = 2
    /\ \E d \in BucketDepths : <<d, Sprite>> \in SeqRange(tf.passes[1].registered)
    /\ Sprite \notin SeqRange(tf.passes[1].visited)
    /\ Sprite \in SeqRange(tf.passes[2].visited)

(***************************************************************************)
(* The list of tracked renderables across a sweep.                         *)
(***************************************************************************)
\* C34: a sweep leaves in the list the entries that were not null and were
\* not removed by it (a removed renderable has _lastUsed -1), in the order
\* they had, so the list has no null entry afterwards; it hands no
\* renderable already destroyed to a pipe; and no renderable is ever in the
\* list twice.
C34_SweepCompactsList ==
    /\ [][op' = "gc.run" =>
            /\ rgc'.managedRenderables =
                  SelectSeq(rgc.managedRenderables,
                            LAMBDA a : a # 0 /\ rgc'.renderables[a].lastUsed # -1)
            /\ \A i \in DOMAIN rgc'.managedRenderables :
                  rgc'.managedRenderables[i] # 0
            /\ \A a \in rgc'.swept : ~rgc.renderables[a].destroyed]_vars
    /\ [](\A i, j \in DOMAIN rgc.managedRenderables :
             (i # j /\ rgc.managedRenderables[i] # 0) =>
                 rgc.managedRenderables[i] # rgc.managedRenderables[j])

\* A sweep removed one idle renderable and kept another, after a tracked
\* renderable had been destroyed by the application.
C34_Witness ==
    /\ op = "gc.run"
    /\ Len(rgc.managedRenderables) = 1
    /\ Cardinality(rgc.swept) = 1
    /\ \E r \in Renderables : rgc.renderables[r].destroyed /\ rgc.renderables[r].lastUsed # -1

\* C35: after an assignment to enabled the getter gives the value assigned,
\* and when that value is true the sweep task is among the tasks of the
\* scheduler.
C35_EnabledIsLastAssigned ==
    op \in {"gc.enable", "gc.disable"} =>
        /\ GC_enabled(rgc) = rgc.wanted
        /\ rgc.wanted => \E i \in DOMAIN rgc.tasks : rgc.tasks[i].id = rgc.handler

(***************************************************************************)
(* Specification of the stack of blend modes: render groups cached as      *)
(* texture push the blend mode of their root and pop it after their        *)
(* instruction.                                                            *)
(***************************************************************************)
BmPushBlendMode ==
    \E e \in BlendSubjects \ {"none"}, m \in BlendModes :
        /\ Len(renderer.blend.blendModeStack) < MaxBlendDepth
        /\ renderer.blend.sets < MaxBlendSets
        /\ renderer' = [renderer EXCEPT !.blend =
                            BM_noted(@, BM_pushBlendMode(@, e, m), e, m)]
        /\ op' = "bm.push"
        /\ UNCHANGED rendererOnly

BmPopBlendMode ==
    /\ renderer.blend.blendModeStack # <<>>
    /\ renderer' = [renderer EXCEPT !.blend = BM_popBlendMode(@)]
    /\ op' = "bm.pop"
    /\ UNCHANGED rendererOnly

NextBlendStack ==
    \/ BmRegister \/ BmBuildStart
    \/ BmPushBlendMode \/ BmPopBlendMode \/ BmBuildEnd

SpecBlendStack == Init /\ [][NextBlendStack]_vars

\* C36: after popBlendMode the active blend mode is the mode on top of the
\* stack that remains, 'normal' when it is empty; and after buildEnd every
\* pushFilter instruction of the build has its popFilter.
C36_PopRestoresBlendMode ==
    LET b == renderer.blend
        n(a) == Len(SelectSeq(b.set.instructions, LAMBDA e : e.action = a))
    IN  /\ op = "bm.pop" =>
              b.activeBlendMode = IF b.blendModeStack = <<>> THEN "normal"
                                  ELSE Top(b.blendModeStack)
        /\ op = "bm.buildEnd" => n("pushFilter") = n("popFilter")

(***************************************************************************)
(* Specification of the shooter: the component's handlers, the ticker and  *)
(* the interval of explodePlayer, in any order.                            *)
(***************************************************************************)
\* Every object made had an identity left, and the score is within bounds.
ShWithinBounds(s) ==
    /\ 0 \notin s.layer \cup s.stage
    /\ \A i \in DOMAIN s.enemies : s.enemies[i].id # 0
    /\ \A i \in DOMAIN s.bullets : s.bullets[i].id # 0
    /\ s.score <= MaxScore

ShStep(next) ==
    /\ ShWithinBounds(next)
    /\ renderer' = [renderer EXCEPT !.shooter = next]
    /\ UNCHANGED <<rendererOnly, op>>

ShListening == renderer.shooter.ready /\ ~renderer.shooter.destroyed

ShAfterViewInit ==
    /\ ~renderer.shooter.ready
    /\ ~renderer.finder.listening
    /\ ShStep(SH_ngAfterViewInit(renderer.shooter))

ShDestroy ==
    /\ ShListening
    /\ ShStep(SH_ngOnDestroy(renderer.shooter))

ShStart ==
    /\ ShListening
    /\ ShStep(SH_start(renderer.shooter))

ShKeyDown ==
    \E code \in KeyCodes :
        /\ ShListening
        /\ ShStep(SH_onKeyDown(renderer.shooter, code))

ShKeyUp ==
    \E code \in KeyCodes :
        /\ ShListening
        /\ ShStep(SH_onKeyUp(renderer.shooter, code))

ShVisibility ==
    /\ ShListening
    /\ ShStep(SH_onVisibility(renderer.shooter, ~renderer.shooter.hidden))

ShTick ==
    \E shotDue, spawnDue \in BOOLEAN, x \in 0..Width :
        /\ ShListening
        /\ ShStep(SH_tick(renderer.shooter, shotDue, spawnDue, x))

ShBlink ==
    \E k \in DOMAIN renderer.shooter.blinks,
       thrown \in IF renderer.shooter.destroyed THEN BOOLEAN ELSE {FALSE} :
        ShStep(SH_blink(renderer.shooter, k, thrown))

NextShooter ==
    \/ ShAfterViewInit \/ ShStart
    \/ ShKeyDown \/ ShKeyUp
    \/ ShTick \/ ShBlink

SpecShooter == Init /\ [][NextShooter]_vars

\* C37: the enemy graphics attached to gameLayer are exactly the elements of
\* the enemies list, and the bullet graphics attached are exactly the
\* elements of the bullets list.
C37_LayerHoldsTheLists ==
    LET s == renderer.shooter
    IN  /\ s.layer \cap EnemyIds = {s.enemies[i].id : i \in DOMAIN s.enemies}
        /\ s.layer \cap BulletIds = {s.bullets[i].id : i \in DOMAIN s.bullets}

(***************************************************************************)
(* Specification of the game loops: one of the two components is on the    *)
(* page; it is started, hidden and shown, resized and destroyed while its  *)
(* ticker runs.                                                            *)
(***************************************************************************)
FiStep(next) ==
    /\ 0 \notin next.stage
    /\ next.found <= MaxFound
    /\ renderer' = [renderer EXCEPT !.finder = next]
    /\ UNCHANGED <<rendererOnly, op>>

FiListening == renderer.finder.listening /\ ~renderer.finder.destroyed

FiListen ==
    /\ ~renderer.finder.listening
    /\ ~renderer.shooter.ready
    /\ FiStep(FI_listen(renderer.finder))

FiLoaded ==
    \E x \in 0..renderer.finder.width :
        /\ FiListening
        /\ ~renderer.finder.loaded
        /\ FiStep(FI_loaded(renderer.finder, x))

FiDestroy ==
    /\ FiListening
    /\ FiStep(FI_ngOnDestroy(renderer.finder))

FiStart ==
    \E x \in 0..renderer.finder.width :
        /\ FiListening
        /\ FiStep(FI_start(renderer.finder, x))

FiKeyDown ==
    \E code \in FinderKeys :
        /\ FiListening
        /\ FiStep(FI_onKeyDown(renderer.finder, code))

FiKeyUp ==
    \E code \in FinderKeys :
        /\ FiListening
        /\ FiStep(FI_onKeyUp(renderer.finder, code))

FiVisibility ==
    /\ FiListening
    /\ FiStep(FI_onVisibility(renderer.finder, ~renderer.finder.hidden))

FiResize ==
    \E w \in {Width, Width + 1} :
        /\ FiListening
        /\ FiStep(FI_onResize(renderer.finder, w))

FiTick ==
    \E x \in 0..renderer.finder.width :
        /\ FiListening
        /\ FiStep(FI_tick(renderer.finder, x))

\* Time passes.
FiClock ==
    /\ renderer.finder.now < MaxNow
    /\ FiStep([renderer.finder EXCEPT !.now = @ + 1])

ShResize ==
    \E h \in {Height - 1, Height} :
        /\ ShListening
        /\ ShStep(SH_onResize(renderer.shooter, h))

NextLoop ==
    \/ ShAfterViewInit \/ ShStart \/ ShVisibility \/ ShResize
    \/ ShTick \/ ShBlink \/ ShDestroy
    \/ FiListen \/ FiLoaded \/ FiStart \/ FiKeyDown \/ FiKeyUp
    \/ FiVisibility \/ FiResize \/ FiTick \/ FiClock \/ FiDestroy

SpecLoop == Init /\ [][NextLoop]_vars

\* C38: in both components running is true only after start() has been
\* called, and once a round has ended (lives 0 in the shooter, time up in
\* the finder) running is false until start() is called again.
C38_RunningOnlyAfterStart ==
    /\ renderer.shooter.running => renderer.shooter.started
    /\ renderer.finder.running => renderer.finder.started
    /\ renderer.shooter.lives = 0 => ~renderer.shooter.running
    /\ renderer.finder.ended => ~renderer.finder.running

\* C39: at most one game-over text is attached to the stage, showGameOver
\* runs at most once in a round, and a step of start() leaves no game-over
\* text on the stage.
C39_OneGameOverText ==
    /\ [](/\ Cardinality(renderer.shooter.stage) <= 1
          /\ renderer.shooter.shown <= 1)
    /\ [][renderer.shooter' = SH_start(renderer.shooter) =>
              renderer.shooter'.stage = {}]_vars

(***************************************************************************)
(* Specification of the life of the shooter: no key is pressed; the        *)
(* component starts, ticks, is hidden and shown, and is destroyed.         *)
(***************************************************************************)
NextShooterLife ==
    \/ ShAfterViewInit \/ ShStart \/ ShVisibility
    \/ ShTick \/ ShBlink \/ ShDestroy

SpecShooterLife == Init /\ [][NextShooterLife]_vars

\* C40: lives is between 0 and 3, running is false whenever lives is 0, and
\* lives is 3 as long as no enemy has escaped or hit the player in the
\* current round.
C40_LivesFollowTheRound ==
    /\ renderer.shooter.lives \in 0..3
    /\ renderer.shooter.lives = 0 => ~renderer.shooter.running
    /\ renderer.shooter.lives < 3 => renderer.shooter.roundEvent

====
